---- MODULE Spec2Model ----
(***************************************************************************)
(* Compliance check / fix orchestration and evidence logging of            *)
(* src/backend/server.js.                                                  *)
(*                                                                         *)
(* One request handler runs at a time.  An action is the code a handler    *)
(* runs between two remote-call completions: the evidence calls it makes   *)
(* there (logEvidence) are part of the action, in program order.  The      *)
(* remote project (auth config, users, tables, backups config) and the     *)
(* file system are the environment: every remote call may succeed or       *)
(* fail, and the file system works or fails in one of the ways logEvidence *)
(* distinguishes.                                                          *)
(***************************************************************************)
EXTENDS Integers, Sequences, FiniteSets, TLC

\* ------------------------------------------------------------------ bounds
MaxUsers == 1
MaxTables == 2
MaxRequests == 2
MaxCalls == 2
MaxClock == 2
MaxPayloadLen == 2

\* ------------------------------------------------------------------ state
VARIABLES
  remote,        \* the remote project: auth config, users, tables, backups, slot
  fs,            \* how the file system behaves for logEvidence
  evidenceLogs,  \* server.js:47, the in-memory list
  projectFiles,  \* ids of the records written under evidence/<projectRef>/
  mainLogFile,   \* evidence/evidence_log.json, the ids it holds, in order
  pc,            \* position of the request handler
  ck,            \* check request: the three checkers' positions and results
  fx,            \* fix request: flags, planning probe, fixes object
  response,      \* what the handler sent: http status and body
  remoteCalls,   \* the remote calls this request has issued, in order
  round,         \* number of the request being handled
  prev,          \* outcome of the previous request
  inflight,      \* the logEvidence calls made one by one, each with its position
  clock,         \* the millisecond `new Date()` reads
  arg,           \* the response body handed to executeQuery's normalization
  result,        \* the rows it made of it
  req,           \* where the arriving request carries a token
  token,         \* req.token, as validateToken set it
  hung           \* the remote call that never returns, if any

vars == <<remote, fs, evidenceLogs, projectFiles, mainLogFile, pc, ck, fx,
          response, remoteCalls, round, prev, inflight, clock, arg, result,
          req, token, hung>>

Null == 0

\* --------------------------------------------------------------- JS values
\* Values of the remote JSON fields are tags, so that values of different
\* JS types can be compared.
JsValues == {"undefined", "null", "bool_true", "bool_false", "str_true",
             "num_1", "str_NONE", "str_twilio"}

Truthy(v) == v \in {"bool_true", "str_true", "num_1", "str_NONE", "str_twilio"}

\* a === true
StrictTrue(v) == v = "bool_true"

\* a || b  and  a && b  return one of their operands
JsOr(a, b) == IF Truthy(a) THEN a ELSE b
JsAnd(a, b) == IF Truthy(a) THEN b ELSE a
JsBool(b) == IF b THEN "bool_true" ELSE "bool_false"

SeqsUpTo(S, n) == UNION {[1..k -> S] : k \in 0..n}


\* ------------------------------------------------------- evidence recorder
FsModes == {"ok", "mkdir_fails", "project_write_fails", "read_fails",
            "write_fails"}

\* server.js:77: the per-project file is named after the action and the
\* timestamp.
FileName(log) == <<log.action, log.timestamp>>

\* fs.writeFile of the record id's file: a file of that name is replaced.
\* files holds the ids of the records the directory's files contain.
WriteFile(files, logs, id) ==
  UNION {{j \in files : FileName(l[j]) /= FileName(l[i])} \cup {i} :
           <<l, i>> \in {<<logs, id>>}}

\* The recorder's state threaded through the logEvidence calls of one action:
\* ret is what the last call returned, raised whether a call threw.
Ev == [logs |-> evidenceLogs, files |-> projectFiles, main |-> mainLogFile,
       ret |-> Null, raised |-> FALSE]

\* logEvidence without its try/catch: a file-system failure reaches the caller.
LogEvidenceNoCatch(e, action, status, parent, hasProject) ==
  LET id == Len(e.logs) + 1
      log == [id |-> id, timestamp |-> id, action |-> action,
              status |-> status, parent |-> parent, hasProject |-> hasProject,
              fixes |-> <<>>, resultCount |-> <<>>]
      mem == [e EXCEPT !.logs = Append(e.logs, log)]
  IN IF e.raised THEN e
     ELSE IF fs = "ok"
       THEN [mem EXCEPT !.files = IF hasProject THEN @ \cup {id} ELSE @,
                        !.main = Append(@, id), !.ret = id]
       ELSE [mem EXCEPT !.ret = Null, !.raised = TRUE]

\* server.js:50-101, a whole call as one step, as the request handlers make
\* it: their calls are taken at different milliseconds (the timestamp is the
\* record's number), so that each per-project write makes a file of its own;
\* the calls that overlap or share a millisecond are the steps RecordCall ..
\* WriteMainLog below.
\* The record is pushed to the in-memory list before the
\* try block; mkdir and the per-project write happen only with a projectRef;
\* a failed read of the global log is caught by the inner try and the log
\* restarts from the empty array; every other failure returns null.
LogEvidence(e, action, status, parent, hasProject) ==
  LET After(r) ==
        LET id == Len(r.logs) + 1
            log == [id |-> id, timestamp |-> id, action |-> action,
                    status |-> status, parent |-> parent,
                    hasProject |-> hasProject, fixes |-> <<>>,
                    resultCount |-> <<>>]
            mem == [r EXCEPT !.logs = Append(r.logs, log)]
            written == [mem EXCEPT !.files = IF hasProject
                                                THEN WriteFile(@, mem.logs, id)
                                                ELSE @]
        IN IF r.raised THEN r
           ELSE IF hasProject /\ fs = "mkdir_fails" THEN [mem EXCEPT !.ret = Null]
           ELSE IF hasProject /\ fs = "project_write_fails"
             THEN [mem EXCEPT !.ret = Null]
           ELSE IF fs = "write_fails" THEN [written EXCEPT !.ret = Null]
           ELSE IF fs = "read_fails"
             THEN [written EXCEPT !.main = <<id>>, !.ret = id]
           ELSE [written EXCEPT !.main = Append(@, id), !.ret = id]
  IN \* the recorder's state before the call is worked out once
     CHOOSE after \in {After(r) : r \in {e}} : TRUE

\* a call with the request's projectRef
Log(e, action, status, parent) == LogEvidence(e, action, status, parent, TRUE)

\* server.js:944-949: the plan record's details hold the fixes object itself.
\* The in-memory record keeps the reference; the files hold the text
\* JSON.stringify made of it when the call ran.
LogPlan(e, fixId, fixes) ==
  LET e1 == Log(e, "compliance_fix_plan", "info", fixId)
  IN IF e.raised THEN e1
     ELSE [e1 EXCEPT !.logs[Len(e1.logs)].fixes = <<fixes>>]

\* server.js:59 and 64: `details` is stored by reference, so the plan record
\* in the in-memory list shows the fixes object as the handler has left it.
Aliased(logs, f) ==
  IF f.planRef = Null THEN logs
  ELSE [logs EXCEPT ![f.planRef].fixes = <<f.fixes>>]

\* ------------------------------------------- logEvidence, one await at a time
\* Calls made while no request handler of this model runs: by overlapping
\* requests, or by one request's concurrent branches.  A call is the record's
\* number; inflight[c] is its position in server.js:50-101.
RecordedActions == {"sql_query_attempt", "rls_table_fix_attempt"}

NewCall(action, hasProject) ==
  [action |-> action, hasProject |-> hasProject,
   stage |-> IF hasProject THEN "project" ELSE "read",
   seen |-> <<>>, wrote |-> FALSE, ret |-> Null]

NewLog(id, action, hasProject) ==
  [id |-> id, timestamp |-> clock, action |-> action, status |-> "info",
   parent |-> Null, hasProject |-> hasProject, fixes |-> <<>>,
   resultCount |-> <<>>]

\* the in-memory list kept newest first
RecordCallPrepend(action, hasProject) ==
  /\ pc = "idle"
  /\ Len(evidenceLogs) < MaxCalls
  /\ evidenceLogs' =
       <<NewLog(Len(evidenceLogs) + 1, action, hasProject)>> \o evidenceLogs
  /\ inflight' = Append(inflight, NewCall(action, hasProject))
  /\ UNCHANGED <<remote, fs, projectFiles, mainLogFile, pc, ck, fx, response,
                 remoteCalls, round, prev,
                 clock, arg, result, req, token, hung>>

\* server.js:50-67: the synchronous part of a call, up to its first await:
\* the timestamp is read, the record built and pushed to the in-memory list.
RecordCall(action, hasProject) ==
  /\ pc = "idle"
  /\ Len(evidenceLogs) < MaxCalls
  /\ evidenceLogs' =
       Append(evidenceLogs, NewLog(Len(evidenceLogs) + 1, action, hasProject))
  /\ inflight' = Append(inflight, NewCall(action, hasProject))
  /\ UNCHANGED <<remote, fs, projectFiles, mainLogFile, pc, ck, fx, response,
                 remoteCalls, round, prev,
                 clock, arg, result, req, token, hung>>

\* server.js:71-79: mkdir and the write of the record's own file; a failure
\* of either ends the call in the outer catch, which returns null.
WriteProjectFile(c) ==
  /\ c \in 1..Len(inflight)
  /\ inflight[c].stage = "project"
  /\ IF fs \in {"mkdir_fails", "project_write_fails"}
       THEN /\ inflight' = [inflight EXCEPT ![c].stage = "returned",
                                            ![c].ret = Null]
            /\ UNCHANGED projectFiles
       ELSE /\ projectFiles' = WriteFile(projectFiles, evidenceLogs, c)
            /\ inflight' = [inflight EXCEPT ![c].stage = "read",
                                            ![c].wrote = TRUE]
  /\ UNCHANGED <<remote, fs, evidenceLogs, mainLogFile, pc, ck, fx, response,
                 remoteCalls, round, prev,
                 clock, arg, result, req, token, hung>>

\* server.js:82-91: the global log is read into the call's own mainLog; a
\* failed read leaves the empty array.
ReadMainLog(c) ==
  /\ c \in 1..Len(inflight)
  /\ inflight[c].stage = "read"
  /\ inflight' = [inflight EXCEPT
                    ![c].stage = "write",
                    ![c].seen = IF fs = "read_fails" THEN <<>> ELSE mainLogFile]
  /\ UNCHANGED <<remote, fs, evidenceLogs, projectFiles, mainLogFile, pc, ck,
                 fx, response, remoteCalls, round, prev,
                 clock, arg, result, req, token, hung>>

\* server.js:93-100: the record is pushed to mainLog, which replaces the file;
\* the call returns the id, or null when the write failed.
WriteMainLog(c) ==
  /\ c \in 1..Len(inflight)
  /\ inflight[c].stage = "write"
  /\ IF fs = "write_fails"
       THEN /\ inflight' = [inflight EXCEPT ![c].stage = "returned",
                                            ![c].ret = Null]
            /\ UNCHANGED mainLogFile
       ELSE /\ mainLogFile' = Append(inflight[c].seen, c)
            /\ inflight' = [inflight EXCEPT ![c].stage = "returned",
                                            ![c].ret = c]
  /\ UNCHANGED <<remote, fs, evidenceLogs, projectFiles, pc, ck, fx, response,
                 remoteCalls, round, prev,
                 clock, arg, result, req, token, hung>>

\* a millisecond passes
Tick ==
  /\ pc = "idle"
  /\ clock < MaxClock
  /\ clock' = clock + 1
  /\ UNCHANGED <<remote, fs, evidenceLogs, projectFiles, mainLogFile, pc, ck,
                 fx, response, remoteCalls, round, prev, inflight,
                 arg, result, req, token, hung>>

\* server.js:107-131: the records the files of the project's directory hold
GetProjectLogsFromFiles == {evidenceLogs[i] : i \in projectFiles}

\* ------------------------------------------------------------ remote project
\* An auth config as /config/auth returns it; isNull is a null body.
AuthConfig(isNull, sms, mfa, ext) ==
  [isNull |-> isNull, sms_provider |-> sms, mfa_enabled |-> mfa,
   external_mfa_enabled |-> ext]

AuthNull == AuthConfig(TRUE, "undefined", "undefined", "undefined")
AuthOff == AuthConfig(FALSE, "str_NONE", "bool_false", "undefined")
AuthOn == AuthConfig(FALSE, "undefined", "bool_true", "undefined")

UserRows == BOOLEAN                       \* has_mfa of one auth.users row
TableRows == [rls_enabled : BOOLEAN, has_policies : BOOLEAN]

\* what `SELECT ... FROM auth.users u` returns (server.js:431-441)
UserQueryRows(r) ==
  [i \in 1..Len(r.users) |-> [id |-> i, has_mfa |-> r.users[i]]]

\* what the catalog query returns (server.js:527-544)
TableQueryRows(r) ==
  [i \in 1..Len(r.tables) |->
     [tablename |-> i, has_policies |-> r.tables[i].has_policies,
      rls_enabled |-> r.tables[i].rls_enabled]]

NoRls(row) == ~row.rls_enabled

\* what the planning query returns: AND NOT c.relrowsecurity (server.js:803-815)
MissingRlsRows(r) ==
  LET all == SelectSeq(TableQueryRows(r), NoRls)
  IN [i \in 1..Len(all) |-> [tablename |-> all[i].tablename]]

\* The response bodies the SQL endpoint may give for a row list: the rows, or
\* the rows wrapped in one more array.
QueryPayloads(rows) ==
  {[isArray |-> TRUE, nested |-> FALSE, data |-> rows],
   [isArray |-> TRUE, nested |-> TRUE, data |-> <<rows>>]}

\* the normalization without the unwrapping of a nested payload
NormalizeRowsNoUnwrap(p) == IF p.isArray THEN p.data ELSE <<>>

\* server.js:190-196.  nested is Array.isArray(response.data[0]).
NormalizeRows(p) ==
  IF p.isArray
    THEN IF Len(p.data) > 0 /\ p.nested THEN p.data[1] ELSE p.data
    ELSE <<>>

\* What the SQL endpoint answers to ALTER TABLE (no rows) and to the
\* replication-slot SELECT (the slot's row).
StatementPayload == [isArray |-> TRUE, nested |-> FALSE, data |-> <<>>]
SlotPayload ==
  [isArray |-> TRUE, nested |-> FALSE, data |-> <<[slot_name |-> "pitr_slot"]>>]

\* executeQuery, server.js:171-177: the attempt is logged before the POST
QueryAttempt(e) == Log(e, "sql_query_attempt", "info", Null)

\* the success record without the back-reference to the attempt
QuerySuccessNoRef(e, queryLogId, rows) ==
  LET e1 == Log(e, "sql_query_success", "success", Null)
  IN IF e.raised THEN e1
     ELSE [e1 EXCEPT !.logs[Len(e1.logs)].resultCount = <<Len(rows)>>]

\* executeQuery, server.js:198-208: the success record carries
\* results.length and queryLogId; the rows are then returned
QuerySuccess(e, queryLogId, rows) ==
  LET e1 == Log(e, "sql_query_success", "success", queryLogId)
  IN IF e.raised THEN e1
     ELSE [e1 EXCEPT !.logs[Len(e1.logs)].resultCount = <<Len(rows)>>]

\* executeQuery, server.js:209-223: the failure is logged and thrown again
QueryFailure(e) == Log(e, "sql_query_failure", "error", Null)

\* ALTER TABLE ... ENABLE ROW LEVEL SECURITY on the tables named in names
EnableRls(r, names) ==
  [r EXCEPT !.tables =
     [i \in 1..Len(r.tables) |->
        IF i \in names THEN [r.tables[i] EXCEPT !.rls_enabled = TRUE]
        ELSE r.tables[i]]]

\* PATCH /config/auth {mfa_enabled: true, mfa_required: true}
PatchAuth(r) ==
  [r EXCEPT !.auth = [@ EXCEPT !.isNull = FALSE, !.mfa_enabled = "bool_true"]]

\* PATCH /database/backups {pitr_enabled: true}
PatchBackups(r) == [r EXCEPT !.backups = "bool_true"]

\* SELECT pg_create_physical_replication_slot('pitr_slot'): the slot exists
\* afterwards; the backups configuration is another resource.
CreateSlot(r) == [r EXCEPT !.slot = TRUE]

\* ------------------------------------------------------------ step plumbing
Call(op, target) == [op |-> op, target |-> target, table |-> 0]
TableCall(name) == [op |-> "POST", target |-> "rls_enable_table", table |-> name]

\* The state an action starts from, as a record the action updates.
Here == [e |-> Ev, pc |-> pc, ck |-> ck, fx |-> fx, response |-> response,
         remote |-> remote, calls |-> remoteCalls, token |-> token]

\* Commit the record an action computed.  A logEvidence call that threw
\* would leave the handler through its catch blocks, whose own logEvidence
\* call throws again: the request is left without a response.
Apply(step) ==
  \E o \in {step} :
    /\ evidenceLogs' = IF o.e.raised THEN o.e.logs ELSE Aliased(o.e.logs, o.fx)
    /\ projectFiles' = o.e.files
    /\ mainLogFile' = o.e.main
    /\ IF o.e.raised
         THEN /\ pc' = "aborted"
              /\ UNCHANGED <<ck, fx, response, remote, remoteCalls, token>>
         ELSE /\ pc' = o.pc
              /\ token' = o.token
              /\ ck' = o.ck
              /\ fx' = o.fx
              /\ response' = o.response
              /\ remote' = o.remote
              /\ remoteCalls' = o.calls
    /\ UNCHANGED <<fs, round, prev, inflight, clock, arg, result, req, hung>>

ZeroSummary == [total |-> 0, passing |-> 0, failing |-> 0]
NoResponse == [http |-> 0, kind |-> "none"]

\* ------------------------------------------------------------ validateToken
\* A request carries a token in up to four places.  Each place holds nothing,
\* the empty string, or a token, named here after the place it came in; the
\* Authorization header may also hold another scheme's credentials.
NoToken == "undefined"
AuthorizationHeaders == {"undefined", "basic", "bearer"}

Requests ==
  [authorization : AuthorizationHeaders,
   supabaseToken : {"undefined", "str_empty", "tok_supabase_header"},
   bodyToken : {"undefined", "str_empty", "tok_body"},
   queryToken : {"undefined", "str_empty", "tok_query"}]

\* a request with the Authorization header alone
BearerRequest ==
  [authorization |-> "bearer", supabaseToken |-> "undefined",
   bodyToken |-> "undefined", queryToken |-> "undefined"]

\* !!v of a token value
Carries(v) == v \notin {"undefined", "str_empty"}

\* a || b
OrElse(a, b) == IF Carries(a) THEN a ELSE b

\* the resolution with the query parameter looked at first
ResolveTokenQueryFirst(r) ==
  OrElse(r.queryToken,
         OrElse(r.bodyToken,
                OrElse(r.supabaseToken,
                       IF r.authorization = "bearer" THEN "tok_authorization"
                       ELSE "undefined")))

\* server.js:136-139
ResolveToken(r) ==
  IF r.authorization = "bearer" THEN "tok_authorization"
  ELSE OrElse(r.supabaseToken, OrElse(r.bodyToken, r.queryToken))

\* server.js:141-151: no token; the failure is recorded and the request
\* answered 401 without next() being called.
RejectRequest ==
  /\ pc = "idle"
  /\ ~Carries(ResolveToken(req))
  /\ LET e1 == LogEvidence(Ev, "token_validation", "failure", Null, FALSE)
     IN Apply([Here EXCEPT
          !.e = e1, !.pc = "done",
          !.response = [http |-> 401, kind |-> "token_required"]])

\* ------------------------------------- logs: GET /api/evidence/logs/:ref?
\* fs.access(projectDir) succeeds once a call with the projectRef got past
\* its mkdir (server.js:74).
ProjectDirExists ==
  /\ fs /= "mkdir_fails"
  /\ \E i \in 1..Len(evidenceLogs) : evidenceLogs[i].hasProject

\* the records oldest first
SortAscending(logs) ==
  LET RECURSIVE Sorted(_)
      Sorted(S) ==
        IF S = {} THEN <<>>
        ELSE LET m == CHOOSE x \in S : \A y \in S : x.timestamp <= y.timestamp
             IN <<m>> \o Sorted(S \ {m})
  IN Sorted(logs)

\* server.js:126: sort((a, b) => new Date(b.timestamp) - new Date(a.timestamp))
SortDescending(logs) ==
  LET RECURSIVE Sorted(_)
      Sorted(S) ==
        IF S = {} THEN <<>>
        ELSE LET m == CHOOSE x \in S : \A y \in S : x.timestamp >= y.timestamp
             IN <<m>> \o Sorted(S \ {m})
  IN Sorted(logs)

\* server.js:107-131: no directory, or a readdir, readFile or JSON.parse that
\* fails, gives the empty list; otherwise every file gives its record.
ListForProject ==
  IF ~ProjectDirExists THEN <<>>
  ELSE IF fs = "list_fails" THEN <<>>
  ELSE SortDescending(GetProjectLogsFromFiles)

LogsResponse(withProject, logs) ==
  [http |-> 200, kind |-> "logs", withProject |-> withProject, logs |-> logs]

\* server.js:134-166 with a token (152-165), then 1297-1316: the request is
\* recorded; without a projectRef the in-memory list is sent at once, with
\* one the project's directory is read.
LogsStart(withProject) ==
  /\ pc = "idle"
  /\ Carries(ResolveToken(req))
  /\ LET e0 == LogEvidence(Ev, "token_validation_attempt", "info", Null, FALSE)
         e1 == LogEvidence(e0, "evidence_logs_request", "info", Null, withProject)
     IN IF withProject
          THEN Apply([Here EXCEPT !.e = e1, !.token = ResolveToken(req),
                                  !.pc = "logs_reading"])
          ELSE Apply([Here EXCEPT !.e = e1, !.token = ResolveToken(req),
                                  !.pc = "done",
                                  !.response = LogsResponse(FALSE, e1.logs)])

\* server.js:1309-1316: getProjectLogsFromFiles returned; respond.
LogsFilesReturn ==
  /\ pc = "logs_reading"
  /\ Apply([Here EXCEPT !.pc = "done",
                        !.response = LogsResponse(TRUE, ListForProject)])

\* ------------------------------------------------- check: GET /check/:ref
IsPass(x) == x.status = "pass"
IsFail(x) == x.status = "fail"
Passing(units) == Cardinality({i \in 1..Len(units) : IsPass(units[i])})
Failing(units) == Cardinality({i \in 1..Len(units) : IsFail(units[i])})

\* server.js:409-413
MfaEnabledValue(cfg) ==
  IF cfg.isNull THEN "null"
  ELSE JsOr(JsOr(JsAnd(cfg.sms_provider,
                       JsBool(cfg.sms_provider /= "str_NONE")),
                 cfg.mfa_enabled),
            cfg.external_mfa_enabled)

\* server.js:447-452
MapUsers(rows) ==
  [i \in 1..Len(rows) |->
     [id |-> rows[i].id, hasMFA |-> rows[i].has_mfa,
      status |-> IF rows[i].has_mfa THEN "pass" ELSE "fail"]]

\* the mapping with a table passing only when it also has policies
MapTablesNeedPolicies(rows) ==
  [i \in 1..Len(rows) |->
     [name |-> rows[i].tablename, rlsEnabled |-> rows[i].rls_enabled,
      hasPolicies |-> rows[i].has_policies,
      status |-> IF rows[i].rls_enabled /\ rows[i].has_policies
                   THEN "pass" ELSE "fail"]]

\* server.js:549-556
MapTables(rows) ==
  [i \in 1..Len(rows) |->
     [name |-> rows[i].tablename, rlsEnabled |-> rows[i].rls_enabled,
      hasPolicies |-> rows[i].has_policies,
      status |-> IF rows[i].rls_enabled THEN "pass" ELSE "fail"]]

\* the counts with passing and failing exchanged
SummarizeSwapped(units) ==
  [total |-> Len(units), passing |-> Failing(units),
   failing |-> Passing(units)]

\* server.js:476-480 and 571-575
Summarize(units) ==
  [total |-> Len(units), passing |-> Passing(units),
   failing |-> Failing(units)]

\* The checkers' results.  failed marks the error payload {error, summary}.
MfaOk(enabled, users, id) ==
  [failed |-> FALSE, mfaEnabledGlobally |-> enabled, users |-> users,
   summary |-> Summarize(users), checkId |-> id]
MfaError ==
  [failed |-> TRUE, mfaEnabledGlobally |-> "undefined", users |-> <<>>,
   summary |-> ZeroSummary, checkId |-> Null]
RlsOk(tables, id) ==
  [failed |-> FALSE, tables |-> tables, summary |-> Summarize(tables),
   checkId |-> id]
RlsError ==
  [failed |-> TRUE, tables |-> <<>>, summary |-> ZeroSummary, checkId |-> Null]
PitrOk(enabled, id) ==
  [failed |-> FALSE, pitrEnabled |-> enabled,
   status |-> IF enabled THEN "pass" ELSE "fail", checkId |-> id]
\* the error result counted as a failed control
PitrErrorAsFail ==
  [failed |-> TRUE, pitrEnabled |-> FALSE, status |-> "fail", checkId |-> Null]

\* server.js:667-672
PitrError ==
  [failed |-> TRUE, pitrEnabled |-> FALSE, status |-> "error", checkId |-> Null]

CkIdle ==
  [mfa |-> "off", rls |-> "off", pitr |-> "off", checkId |-> Null,
   mfaCheckId |-> Null, rlsCheckId |-> Null, pitrCheckId |-> Null,
   mfaQueryLogId |-> Null, rlsQueryLogId |-> Null, mfaEnabled |-> "undefined",
   mfaResult |-> MfaError, rlsResult |-> RlsError, pitrResult |-> PitrError]

\* server.js:134-166 with a token (152-165), then 371-395, 520-546, 613-627: the
\* handler logs the initiation and starts the three checkers, each of which
\* logs its start and issues its first remote call.
CheckStart ==
  /\ pc = "idle"
  /\ Carries(ResolveToken(req))
  /\ LET e0 == LogEvidence(Ev, "token_validation_attempt", "info", Null, FALSE)
         e1 == Log(e0, "compliance_check_initiated", "info", Null)
         e2 == Log(e1, "mfa_check_started", "info", e1.ret)
         e3 == Log(e2, "rls_check_started", "info", e1.ret)
         e4 == Log(e3, "pitr_check_started", "info", e1.ret)
         e5 == QueryAttempt(e4)
     IN Apply([Here EXCEPT
          !.e = e5,
          !.token = ResolveToken(req),
          !.pc = "checking",
          !.ck = [CkIdle EXCEPT !.mfa = "auth", !.rls = "query",
                    !.pitr = "backups", !.checkId = e1.ret,
                    !.mfaCheckId = e2.ret, !.rlsCheckId = e3.ret,
                    !.pitrCheckId = e4.ret, !.rlsQueryLogId = e5.ret],
          !.calls = remoteCalls \o <<Call("GET", "auth"),
                                     Call("POST", "rls_tables_query"),
                                     Call("GET", "backups")>>])

\* the MFA checker without its catch: the error rejects Promise.all and the
\* handler's catch answers 500
MfaCheckFailFast(o) ==
  LET e1 == Log(o.e, "compliance_check_failed", "error", Null)
  IN [o EXCEPT !.e = e1, !.pc = "done",
               !.response = [http |-> 500, kind |-> "error"]]

\* server.js:497-513
MfaCheckFailed(o) ==
  LET e1 == Log(o.e, "mfa_check_failed", "error", o.ck.checkId)
  IN [o EXCEPT !.e = e1, !.ck.mfa = "done", !.ck.mfaResult = MfaError]

\* server.js:399-445: the auth config arrives (or the GET fails).  A null
\* config makes `authConfig.sms_provider_auth_token` throw into the
\* checker's catch.
MfaAuthReturn(ok) ==
  /\ pc = "checking"
  /\ ck.mfa = "auth"
  /\ IF ok /\ ~remote.auth.isNull
       THEN LET e1 == Log(Ev, "auth_config_retrieved", "info", ck.mfaCheckId)
                e2 == QueryAttempt(e1)
            IN Apply([Here EXCEPT
                 !.e = e2, !.ck.mfa = "users",
                 !.ck.mfaEnabled = MfaEnabledValue(remote.auth),
                 !.ck.mfaQueryLogId = e2.ret,
                 !.calls = Append(remoteCalls, Call("POST", "mfa_user_query"))])
       ELSE Apply(MfaCheckFailed(Here))

\* the MFA checker without the inner try around the user query: a failed
\* query reaches the checker's catch
MfaUsersReturnFailFast(ok) ==
  /\ pc = "checking"
  /\ ck.mfa = "users"
  /\ IF ok
       THEN \E p \in QueryPayloads(UserQueryRows(remote)) :
            LET users == MapUsers(NormalizeRows(p))
                e1 == QuerySuccess(Ev, ck.mfaQueryLogId, NormalizeRows(p))
                e2 == Log(e1, "user_mfa_status", "info", ck.mfaCheckId)
                e3 == Log(e2, "mfa_check_completed", "info", ck.mfaCheckId)
            IN Apply([Here EXCEPT
                 !.e = e3, !.ck.mfa = "done",
                 !.ck.mfaResult = MfaOk(ck.mfaEnabled, users, ck.mfaCheckId)])
       ELSE Apply(MfaCheckFailed([Here EXCEPT !.e = QueryFailure(Ev)]))

\* server.js:443-496 with executeQuery 190-223: the user query returns.
MfaUsersReturn(ok) ==
  /\ pc = "checking"
  /\ ck.mfa = "users"
  /\ IF ok
       THEN \E p \in QueryPayloads(UserQueryRows(remote)) :
            LET users == MapUsers(NormalizeRows(p))
                e1 == QuerySuccess(Ev, ck.mfaQueryLogId, NormalizeRows(p))
                e2 == Log(e1, "user_mfa_status", "info", ck.mfaCheckId)
                e3 == Log(e2, "mfa_check_completed", "info", ck.mfaCheckId)
            IN Apply([Here EXCEPT
                 !.e = e3, !.ck.mfa = "done",
                 !.ck.mfaResult = MfaOk(ck.mfaEnabled, users, ck.mfaCheckId)])
       ELSE LET e1 == QueryFailure(Ev)
                e2 == Log(e1, "mfa_user_query_failure", "warning", ck.mfaCheckId)
                e3 == Log(e2, "mfa_check_completed", "info", ck.mfaCheckId)
            IN Apply([Here EXCEPT
                 !.e = e3, !.ck.mfa = "done",
                 !.ck.mfaResult = MfaOk(ck.mfaEnabled, <<>>, ck.mfaCheckId)])

\* the RLS checker without its catch: the failed query rejects Promise.all
\* and the handler's catch answers 500
RlsReturnRethrow(ok) ==
  /\ pc = "checking"
  /\ ck.rls = "query"
  /\ IF ok
       THEN \E p \in QueryPayloads(TableQueryRows(remote)) :
            LET tables == MapTables(NormalizeRows(p))
                e1 == QuerySuccess(Ev, ck.rlsQueryLogId, NormalizeRows(p))
                e2 == Log(e1, "table_rls_status", "info", ck.rlsCheckId)
                e3 == Log(e2, "rls_check_completed", "info", ck.rlsCheckId)
            IN Apply([Here EXCEPT
                 !.e = e3, !.ck.rls = "done",
                 !.ck.rlsResult = RlsOk(tables, ck.rlsCheckId)])
       ELSE LET e1 == QueryFailure(Ev)
                e2 == Log(e1, "compliance_check_failed", "error", Null)
            IN Apply([Here EXCEPT
                 !.e = e2, !.ck.rls = "done", !.pc = "done",
                 !.response = [http |-> 500, kind |-> "error"]])

\* server.js:546-606 with executeQuery 190-223: the catalog query returns.
RlsReturn(ok) ==
  /\ pc = "checking"
  /\ ck.rls = "query"
  /\ IF ok
       THEN \E p \in QueryPayloads(TableQueryRows(remote)) :
            LET tables == MapTables(NormalizeRows(p))
                e1 == QuerySuccess(Ev, ck.rlsQueryLogId, NormalizeRows(p))
                e2 == Log(e1, "table_rls_status", "info", ck.rlsCheckId)
                e3 == Log(e2, "rls_check_completed", "info", ck.rlsCheckId)
            IN Apply([Here EXCEPT
                 !.e = e3, !.ck.rls = "done",
                 !.ck.rlsResult = RlsOk(tables, ck.rlsCheckId)])
       ELSE LET e1 == QueryFailure(Ev)
                e2 == Log(e1, "rls_check_failed", "error", ck.checkId)
            IN Apply([Here EXCEPT
                 !.e = e2, !.ck.rls = "done", !.ck.rlsResult = RlsError])

\* the PITR checker with `pitr_enabled` read for its truthiness
PitrReturnTruthy(ok) ==
  /\ pc = "checking"
  /\ ck.pitr = "backups"
  /\ IF ok
       THEN LET e1 == Log(Ev, "pitr_config_retrieved", "info", ck.pitrCheckId)
                e2 == Log(e1, "pitr_check_completed", "info", ck.pitrCheckId)
            IN Apply([Here EXCEPT
                 !.e = e2, !.ck.pitr = "done",
                 !.ck.pitrResult =
                    PitrOk(Truthy(remote.backups), ck.pitrCheckId)])
       ELSE LET e1 == Log(Ev, "pitr_check_failed", "error", ck.checkId)
            IN Apply([Here EXCEPT
                 !.e = e1, !.ck.pitr = "done", !.ck.pitrResult = PitrError])

\* the PITR checker switching PITR on when it finds it off
PitrReturnEnabling(ok) ==
  /\ pc = "checking"
  /\ ck.pitr = "backups"
  /\ IF ok
       THEN LET e1 == Log(Ev, "pitr_config_retrieved", "info", ck.pitrCheckId)
                e2 == Log(e1, "pitr_check_completed", "info", ck.pitrCheckId)
            IN Apply([Here EXCEPT
                 !.e = e2, !.ck.pitr = "done",
                 !.remote = PatchBackups(remote),
                 !.ck.pitrResult =
                    PitrOk(StrictTrue(remote.backups), ck.pitrCheckId)])
       ELSE LET e1 == Log(Ev, "pitr_check_failed", "error", ck.checkId)
            IN Apply([Here EXCEPT
                 !.e = e1, !.ck.pitr = "done", !.ck.pitrResult = PitrError])

\* server.js:622-674: the backups config arrives (or the GET fails).
PitrReturn(ok) ==
  /\ pc = "checking"
  /\ ck.pitr = "backups"
  /\ IF ok
       THEN LET e1 == Log(Ev, "pitr_config_retrieved", "info", ck.pitrCheckId)
                e2 == Log(e1, "pitr_check_completed", "info", ck.pitrCheckId)
            IN Apply([Here EXCEPT
                 !.e = e2, !.ck.pitr = "done",
                 !.ck.pitrResult =
                    PitrOk(StrictTrue(remote.backups), ck.pitrCheckId)])
       ELSE LET e1 == Log(Ev, "pitr_check_failed", "error", ck.checkId)
            IN Apply([Here EXCEPT
                 !.e = e1, !.ck.pitr = "done", !.ck.pitrResult = PitrError])

\* overallStatus computed without the RLS failing count
OverallStatusNoRls(mfaResult, rlsResult, pitrResult) ==
  IF mfaResult.summary.failing = 0 /\ pitrResult.status = "pass"
    THEN "pass" ELSE "fail"

\* server.js:694-697
OverallStatus(mfaResult, rlsResult, pitrResult) ==
  IF /\ mfaResult.summary.failing = 0
     /\ rlsResult.summary.failing = 0
     /\ pitrResult.status = "pass"
    THEN "pass" ELSE "fail"

\* the synthetic PITR counts with total always 1
PitrSummaryTotalOne(pitrResult) ==
  [passing |-> IF pitrResult.status = "pass" THEN 1 ELSE 0,
   failing |-> IF pitrResult.status = "fail" THEN 1 ELSE 0,
   total |-> 1]

\* server.js:689-693
PitrSummary(pitrResult) ==
  [passing |-> IF pitrResult.status = "pass" THEN 1 ELSE 0,
   failing |-> IF pitrResult.status = "fail" THEN 1 ELSE 0,
   total |-> IF pitrResult.status = "error" THEN 0 ELSE 1]

\* server.js:679-699
CompileReport(c) ==
  [http |-> 200, kind |-> "report", checkId |-> c.checkId,
   mfa |-> c.mfaResult, rls |-> c.rlsResult, pitr |-> c.pitrResult,
   summary |->
     [mfa |-> c.mfaResult.summary, rls |-> c.rlsResult.summary,
      pitr |-> PitrSummary(c.pitrResult),
      overallStatus |-> OverallStatus(c.mfaResult, c.rlsResult, c.pitrResult)]]

\* the report sent as soon as two of the three checkers are done
CheckRespondPartial ==
  /\ pc = "checking"
  /\ Cardinality({c \in {ck.mfa, ck.rls, ck.pitr} : c /= "done"}) <= 1
  /\ LET e1 == Log(Ev, "compliance_check_completed", "success", ck.checkId)
     IN Apply([Here EXCEPT !.e = e1, !.pc = "done",
                           !.response = CompileReport(ck)])

\* the report sent when the first of the three checkers is done
CheckRespondFirst ==
  /\ pc = "checking"
  /\ ck.mfa = "done" \/ ck.rls = "done" \/ ck.pitr = "done"
  /\ LET e1 == Log(Ev, "compliance_check_completed", "success", ck.checkId)
     IN Apply([Here EXCEPT !.e = e1, !.pc = "done",
                           !.response = CompileReport(ck)])

\* server.js:676-709: Promise.all resolved; merge, log, respond.
CheckRespond ==
  /\ pc = "checking"
  /\ ck.mfa = "done" /\ ck.rls = "done" /\ ck.pitr = "done"
  /\ LET e1 == Log(Ev, "compliance_check_completed", "success", ck.checkId)
     IN Apply([Here EXCEPT !.e = e1, !.pc = "done",
                           !.response = CompileReport(ck)])

\* --------------------------------------------------- fix: POST /fix/:ref
\* server.js:734: `const { fixMfa = true, ... } = req.body`
FlagValues == {"undefined", "bool_true", "bool_false"}
Defaulted(v) == IF v = "undefined" THEN TRUE ELSE Truthy(v)

\* server.js:768-772
MfaNeedsFix(cfg) ==
  cfg.isNull \/
  ~Truthy(JsOr(JsOr(JsAnd(cfg.sms_provider,
                          JsBool(cfg.sms_provider /= "str_NONE")),
                    cfg.mfa_enabled),
               cfg.external_mfa_enabled))

\* server.js:859-860
PitrNeedsFix(backups) == ~Truthy(backups)

NoFix == [needed |-> FALSE, applied |-> FALSE, success |-> FALSE,
          error |-> "null"]

NoBody == [fixMfa |-> "undefined", fixRls |-> "undefined",
           fixPitr |-> "undefined"]

FxIdle ==
  [body |-> NoBody, fixMfa |-> TRUE, fixRls |-> TRUE, fixPitr |-> TRUE,
   fixId |-> Null, statusCheckId |-> Null, queryLogId |-> Null,
   mfaFixId |-> Null, rlsFixId |-> Null, pitrFixId |-> Null,
   status |-> [mfa |-> [needsFix |-> FALSE, failed |-> FALSE],
               rls |-> [needsFix |-> FALSE, failed |-> FALSE, tables |-> <<>>],
               pitr |-> [needsFix |-> FALSE, failed |-> FALSE]],
   fixes |-> [mfa |-> NoFix,
              rls |-> [needed |-> FALSE, tableCount |-> 0, applied |-> FALSE,
                       success |-> FALSE, tables |-> <<>>, error |-> "null"],
              pitr |-> NoFix],
   pending |-> {}, tableFixId |-> <<>>, tableQueryLogId |-> <<>>,
   tableResult |-> <<>>, planRef |-> Null]

\* server.js:1250-1256
MfaLabel(f) ==
  IF ~f.needed THEN "no_action_needed"
  ELSE IF f.success THEN "fixed" ELSE "failed"

IsSuccess(t) == t.success
Successes(results) == Cardinality({i \in 1..Len(results) : IsSuccess(results[i])})

RlsLabel(f) ==
  IF ~f.needed THEN "no_action_needed"
  ELSE IF f.success THEN "fixed"
  ELSE IF Successes(f.tables) > 0 THEN "partially_fixed" ELSE "failed"

PitrLabel(f) ==
  IF ~f.needed THEN "no_action_needed"
  ELSE IF f.success THEN "fixed" ELSE "failed"

\* allSuccessful with the `!needed ||` guards dropped
AllSuccessfulStrict(fixes) ==
  fixes.mfa.success /\ fixes.rls.success /\ fixes.pitr.success

\* server.js:1262-1265
AllSuccessful(fixes) ==
  /\ (~fixes.mfa.needed \/ fixes.mfa.success)
  /\ (~fixes.rls.needed \/ fixes.rls.success)
  /\ (~fixes.pitr.needed \/ fixes.pitr.success)

\* the result prepared and logged but never sent
AggregateNoResponse(o) ==
  LET fixes == o.fx.fixes
      all == AllSuccessful(fixes)
      e1 == Log(o.e, "compliance_fix_completed",
                IF all THEN "success" ELSE "partial_success", o.fx.fixId)
  IN [o EXCEPT !.e = e1, !.pc = "aggregating"]

\* the completion logged and the failure logged after it, as if sending the
\* response had thrown into the handler's catch
AggregateThenFailure(o) ==
  LET fixes == o.fx.fixes
      all == AllSuccessful(fixes)
      e1 == Log(o.e, "compliance_fix_completed",
                IF all THEN "success" ELSE "partial_success", o.fx.fixId)
      e2 == Log(e1, "compliance_fix_failure", "error", Null)
  IN [o EXCEPT
        !.e = e2, !.pc = "done",
        !.response =
          [http |-> 200, kind |-> "fix", fixId |-> o.fx.fixId,
           summary |-> [mfa |-> MfaLabel(fixes.mfa), rls |-> RlsLabel(fixes.rls),
                        pitr |-> PitrLabel(fixes.pitr)],
           allSuccessful |-> all,
           details |-> fixes]]

\* server.js:1244-1276: prepare the result, log the completion, respond.
Aggregate(o) ==
  LET fixes == o.fx.fixes
      all == AllSuccessful(fixes)
      e1 == Log(o.e, "compliance_fix_completed",
                IF all THEN "success" ELSE "partial_success", o.fx.fixId)
  IN [o EXCEPT
        !.e = e1, !.pc = "done",
        !.response =
          [http |-> 200, kind |-> "fix", fixId |-> o.fx.fixId,
           summary |-> [mfa |-> MfaLabel(fixes.mfa), rls |-> RlsLabel(fixes.rls),
                        pitr |-> PitrLabel(fixes.pitr)],
           allSuccessful |-> all,
           details |-> fixes]]

\* server.js:1155-1177: the PITR fix starts with the replication-slot SQL.
EnterPitr(o) ==
  IF o.fx.fixes.pitr.needed
    THEN LET e1 == Log(o.e, "pitr_fix_attempt", "info", o.fx.fixId)
             e2 == Log(e1, "pitr_sql_fix_attempt", "info", e1.ret)
             e3 == QueryAttempt(e2)
         IN [o EXCEPT !.e = e3, !.pc = "pitr_sql", !.fx.pitrFixId = e1.ret,
                      !.fx.queryLogId = e3.ret,
                      !.calls = Append(@, Call("POST", "pitr_enable_sql"))]
    ELSE Aggregate(o)

\* server.js:1012-1042: the RLS fix starts with the batch transaction.
EnterRls(o) ==
  IF o.fx.fixes.rls.needed
    THEN LET e1 == Log(o.e, "rls_fix_attempt", "info", o.fx.fixId)
             e2 == Log(e1, "rls_batch_transaction", "info", e1.ret)
             e3 == QueryAttempt(e2)
         IN [o EXCEPT !.e = e3, !.pc = "rls_batch", !.fx.rlsFixId = e1.ret,
                      !.fx.queryLogId = e3.ret,
                      !.fx.fixes.rls.applied = TRUE,
                      !.calls = Append(@, Call("POST", "rls_batch_enable"))]
    ELSE EnterPitr(o)

\* server.js:951-985: the MFA fix is one PATCH of the auth config.
EnterMfa(o) ==
  IF o.fx.fixes.mfa.needed
    THEN LET e1 == Log(o.e, "mfa_fix_attempt", "info", o.fx.fixId)
             e2 == Log(e1, "mfa_config_update", "info", e1.ret)
         IN [o EXCEPT !.e = e2, !.pc = "mfa_patch", !.fx.mfaFixId = e1.ret,
                      !.calls = Append(@, Call("PATCH", "auth"))]
    ELSE EnterRls(o)

\* the plan with the caller's opt-in flags ignored
PlanFixesNoOptIn(f) ==
  [mfa |-> [NoFix EXCEPT !.needed = f.status.mfa.needsFix],
   rls |-> [needed |-> f.status.rls.needsFix,
            tableCount |-> Len(f.status.rls.tables), applied |-> FALSE,
            success |-> FALSE, tables |-> <<>>, error |-> "null"],
   pitr |-> [NoFix EXCEPT !.needed = f.status.pitr.needsFix]]

\* server.js:920-941
PlanFixes(f) ==
  [mfa |-> [NoFix EXCEPT !.needed = f.status.mfa.needsFix /\ f.fixMfa],
   rls |-> [needed |-> f.status.rls.needsFix /\ f.fixRls,
            tableCount |-> Len(f.status.rls.tables), applied |-> FALSE,
            success |-> FALSE, tables |-> <<>>, error |-> "null"],
   pitr |-> [NoFix EXCEPT !.needed = f.status.pitr.needsFix /\ f.fixPitr]]

\* server.js:134-166 with a token, then 730-765: the handler reads the
\* opt-in flags, logs the initiation and begins the status probe.
FixStart(body) ==
  /\ pc = "idle"
  /\ Carries(ResolveToken(req))
  /\ LET e0 == LogEvidence(Ev, "token_validation_attempt", "info", Null, FALSE)
         e1 == Log(e0, "compliance_fix_initiated", "info", Null)
         e2 == Log(e1, "compliance_status_check", "info", e1.ret)
     IN Apply([Here EXCEPT
          !.e = e2, !.pc = "probe_mfa", !.token = ResolveToken(req),
          !.fx = [FxIdle EXCEPT !.body = body,
                    !.fixMfa = Defaulted(body.fixMfa),
                    !.fixRls = Defaulted(body.fixRls),
                    !.fixPitr = Defaulted(body.fixPitr),
                    !.fixId = e1.ret, !.statusCheckId = e2.ret],
          !.calls = Append(remoteCalls, Call("GET", "auth"))])

\* the MFA probe counting a failed fetch as a control that needs a fix
ProbeMfaReturnFailClosed(ok) ==
  /\ pc = "probe_mfa"
  /\ LET e1 == IF ok
                 THEN Log(Ev, "mfa_status_checked", "info", fx.statusCheckId)
                 ELSE Log(Ev, "mfa_status_check_failed", "error", fx.statusCheckId)
         e2 == QueryAttempt(e1)
     IN Apply([Here EXCEPT
          !.e = e2, !.pc = "probe_rls",
          !.fx.status.mfa = [needsFix |-> ~ok \/ MfaNeedsFix(remote.auth),
                             failed |-> ~ok],
          !.fx.queryLogId = e2.ret,
          !.calls = Append(remoteCalls, Call("POST", "rls_missing_tables_query"))])

\* server.js:757-817: the auth config arrives (or not); the missing-RLS
\* query is issued.
ProbeMfaReturn(ok) ==
  /\ pc = "probe_mfa"
  /\ LET e1 == IF ok
                 THEN Log(Ev, "mfa_status_checked", "info", fx.statusCheckId)
                 ELSE Log(Ev, "mfa_status_check_failed", "error", fx.statusCheckId)
         e2 == QueryAttempt(e1)
     IN Apply([Here EXCEPT
          !.e = e2, !.pc = "probe_rls",
          !.fx.status.mfa = [needsFix |-> ok /\ MfaNeedsFix(remote.auth),
                             failed |-> ~ok],
          !.fx.queryLogId = e2.ret,
          !.calls = Append(remoteCalls, Call("POST", "rls_missing_tables_query"))])

\* server.js:817-857: the missing-RLS query returns; the backups config is
\* requested.
ProbeRlsReturn(ok) ==
  /\ pc = "probe_rls"
  /\ IF ok
       THEN \E p \in QueryPayloads(MissingRlsRows(remote)) :
            LET tables == NormalizeRows(p)
                e1 == QuerySuccess(Ev, fx.queryLogId, tables)
                e2 == Log(e1, "rls_tables_checked", "info", fx.statusCheckId)
            IN Apply([Here EXCEPT
                 !.e = e2, !.pc = "probe_pitr",
                 !.fx.status.rls =
                    [needsFix |-> Len(tables) > 0, failed |-> FALSE,
                     tables |-> [i \in 1..Len(tables) |-> tables[i].tablename]],
                 !.calls = Append(remoteCalls, Call("GET", "backups"))])
       ELSE LET e1 == QueryFailure(Ev)
                e2 == Log(e1, "rls_status_check_failed", "error", fx.statusCheckId)
            IN Apply([Here EXCEPT
                 !.e = e2, !.pc = "probe_pitr",
                 !.fx.status.rls =
                    [needsFix |-> FALSE, failed |-> TRUE, tables |-> <<>>],
                 !.calls = Append(remoteCalls, Call("GET", "backups"))])

\* server.js:852-949: the backups config arrives (or not); the status check
\* completes, the plan is built and logged, and the first needed fix starts.
ProbePitrReturn(ok) ==
  /\ pc = "probe_pitr"
  /\ LET e1 == IF ok
                 THEN Log(Ev, "pitr_status_checked", "info", fx.statusCheckId)
                 ELSE Log(Ev, "pitr_status_check_failed", "error", fx.statusCheckId)
         e2 == Log(e1, "compliance_status_check_completed", "info",
                   fx.statusCheckId)
         f1 == [fx EXCEPT !.status.pitr =
                  [needsFix |-> ok /\ PitrNeedsFix(remote.backups),
                   failed |-> ~ok]]
         e3 == LogPlan(e2, fx.fixId, PlanFixes(f1))
         f2 == [f1 EXCEPT !.fixes = PlanFixes(f1), !.planRef = Len(e3.logs)]
     IN Apply(EnterMfa([Here EXCEPT !.e = e3, !.fx = f2]))

\* the MFA fix without its catch: a failed PATCH reaches the handler's catch,
\* which answers 500
MfaPatchReturnAbort(ok) ==
  /\ pc = "mfa_patch"
  /\ IF ok
       THEN LET e1 == Log(Ev, "mfa_fix_success", "success", fx.mfaFixId)
            IN Apply(EnterRls([Here EXCEPT
                 !.e = e1, !.remote = PatchAuth(remote),
                 !.fx.fixes.mfa.applied = TRUE,
                 !.fx.fixes.mfa.success = TRUE]))
       ELSE LET e1 == Log(Ev, "compliance_fix_failure", "error", Null)
            IN Apply([Here EXCEPT
                 !.e = e1, !.pc = "done",
                 !.response = [http |-> 500, kind |-> "error"]])

\* the MFA fix leaving `applied` false when the PATCH failed
MfaPatchReturnUnapplied(ok) ==
  /\ pc = "mfa_patch"
  /\ IF ok
       THEN LET e1 == Log(Ev, "mfa_fix_success", "success", fx.mfaFixId)
            IN Apply(EnterRls([Here EXCEPT
                 !.e = e1, !.remote = PatchAuth(remote),
                 !.fx.fixes.mfa.applied = TRUE,
                 !.fx.fixes.mfa.success = TRUE]))
       ELSE LET e1 == Log(Ev, "mfa_fix_failure", "error", Null)
            IN Apply(EnterRls([Here EXCEPT
                 !.e = e1,
                 !.fx.fixes.mfa.error = "message"]))

\* server.js:974-1010: the auth PATCH returns; the RLS fix follows either way.
MfaPatchReturn(ok) ==
  /\ pc = "mfa_patch"
  /\ IF ok
       THEN LET e1 == Log(Ev, "mfa_fix_success", "success", fx.mfaFixId)
            IN Apply(EnterRls([Here EXCEPT
                 !.e = e1, !.remote = PatchAuth(remote),
                 !.fx.fixes.mfa.applied = TRUE,
                 !.fx.fixes.mfa.success = TRUE]))
       ELSE LET e1 == Log(Ev, "mfa_fix_failure", "error", Null)
            IN Apply(EnterRls([Here EXCEPT
                 !.e = e1,
                 !.fx.fixes.mfa.applied = TRUE,
                 !.fx.fixes.mfa.error = "message"]))

\* server.js:1081-1095: the per-table statements, started in table order.
\* Each table's async function logs its attempt as soon as it is called;
\* the query attempts and the POSTs follow.
StartFallback(o) ==
  LET names == o.fx.status.rls.tables
      n == Len(names)
      RECURSIVE Attempts(_, _, _)
      Attempts(e, i, ids) ==
        IF i > n THEN [e |-> e, ids |-> ids]
        ELSE LET e1 == Log(e, "rls_table_fix_attempt", "info", o.fx.rlsFixId)
             IN Attempts(e1, i + 1, Append(ids, e1.ret))
      a == Attempts(o.e, 1, <<>>)
      RECURSIVE Queries(_, _, _)
      Queries(e, i, ids) ==
        IF i > n THEN [e |-> e, ids |-> ids]
        ELSE LET e1 == QueryAttempt(e)
             IN Queries(e1, i + 1, Append(ids, e1.ret))
      q == Queries(a.e, 1, <<>>)
  IN [o EXCEPT
        !.e = q.e, !.pc = "rls_tables",
        !.fx.pending = 1..n,
        !.fx.tableFixId = a.ids,
        !.fx.tableQueryLogId = q.ids,
        !.fx.tableResult = [i \in 1..n |-> [table |-> names[i], success |-> FALSE,
                                            error |-> "null"]],
        !.calls = @ \o [i \in 1..n |-> TableCall(names[i])]]

\* the batch transaction tried a second time after its first failure
RlsBatchReturnRetry(ok) ==
  /\ pc = "rls_batch"
  /\ LET names == fx.status.rls.tables
         batches == {i \in 1..Len(remoteCalls) :
                       remoteCalls[i] = Call("POST", "rls_batch_enable")}
     IN IF ok
       THEN LET e1 == QuerySuccess(Ev, fx.queryLogId,
                                   NormalizeRows(StatementPayload))
                e2 == Log(e1, "rls_fix_success", "success", fx.rlsFixId)
            IN Apply(EnterPitr([Here EXCEPT
                 !.e = e2,
                 !.remote = EnableRls(remote, {names[i] : i \in 1..Len(names)}),
                 !.fx.fixes.rls.success = TRUE,
                 !.fx.fixes.rls.tables =
                    [i \in 1..Len(names) |->
                       [table |-> names[i], success |-> TRUE, error |-> "null"]]]))
       ELSE IF Cardinality(batches) = 1
         THEN LET e1 == QueryFailure(Ev)
                  e2 == QueryAttempt(e1)
              IN Apply([Here EXCEPT
                   !.e = e2, !.fx.queryLogId = e2.ret,
                   !.calls = Append(remoteCalls, Call("POST", "rls_batch_enable"))])
         ELSE LET e1 == QueryFailure(Ev)
                  e2 == Log(e1, "rls_batch_fix_failure", "error", fx.rlsFixId)
                  e3 == Log(e2, "rls_individual_fix_fallback", "info", fx.rlsFixId)
              IN Apply(StartFallback([Here EXCEPT
                   !.e = e3,
                   !.fx.fixes.rls.success = FALSE,
                   !.fx.fixes.rls.error = "message"]))

\* server.js:1042-1079: the batch transaction returns.
RlsBatchReturn(ok) ==
  /\ pc = "rls_batch"
  /\ LET names == fx.status.rls.tables
     IN IF ok
       THEN LET e1 == QuerySuccess(Ev, fx.queryLogId,
                                   NormalizeRows(StatementPayload))
                e2 == Log(e1, "rls_fix_success", "success", fx.rlsFixId)
            IN Apply(EnterPitr([Here EXCEPT
                 !.e = e2,
                 !.remote = EnableRls(remote, {names[i] : i \in 1..Len(names)}),
                 !.fx.fixes.rls.success = TRUE,
                 !.fx.fixes.rls.tables =
                    [i \in 1..Len(names) |->
                       [table |-> names[i], success |-> TRUE, error |-> "null"]]]))
       ELSE LET e1 == QueryFailure(Ev)
                e2 == Log(e1, "rls_batch_fix_failure", "error", fx.rlsFixId)
                e3 == Log(e2, "rls_individual_fix_fallback", "info", fx.rlsFixId)
            IN Apply(StartFallback([Here EXCEPT
                 !.e = e3,
                 !.fx.fixes.rls.success = FALSE,
                 !.fx.fixes.rls.error = "message"]))

\* fixes.rls.success computed with some() in place of every()
FallbackSuccessSome(results) == Successes(results) > 0

\* server.js:1126
FallbackSuccess(results) == Successes(results) = Len(results)

\* the fallback without the per-table catch: the first failed statement
\* rejects Promise.all and ends the RLS fix
RlsTableReturnFailFast(i, ok) ==
  /\ pc = "rls_tables"
  /\ i \in fx.pending
  /\ LET name == fx.status.rls.tables[i]
         e1 == IF ok
                 THEN QuerySuccess(Ev, fx.tableQueryLogId[i],
                                   NormalizeRows(StatementPayload))
                 ELSE QueryFailure(Ev)
         e2 == IF ok
                 THEN Log(e1, "rls_table_fix_success", "success", fx.tableFixId[i])
                 ELSE Log(e1, "rls_fix_failure", "error", Null)
         results == [fx.tableResult EXCEPT
                       ![i] = [table |-> name, success |-> ok,
                               error |-> IF ok THEN "null" ELSE "message"]]
         o1 == [Here EXCEPT
                  !.e = e2,
                  !.remote = IF ok THEN EnableRls(remote, {name}) ELSE remote,
                  !.fx.pending = @ \ {i},
                  !.fx.tableResult = results]
     IN IF ~ok
          THEN Apply(EnterPitr([o1 EXCEPT !.fx.fixes.rls.error = "message"]))
          ELSE IF fx.pending = {i}
            THEN LET e3 == Log(e2, "rls_individual_fixes_completed", "success",
                               fx.rlsFixId)
                 IN Apply(EnterPitr([o1 EXCEPT
                      !.e = e3,
                      !.fx.fixes.rls.tables = results,
                      !.fx.fixes.rls.success = TRUE]))
            ELSE Apply(o1)

\* server.js:1095-1140: one per-table statement returns; when it was the
\* last one, Promise.all resolves and the fallback is summed up.
RlsTableReturn(i, ok) ==
  /\ pc = "rls_tables"
  /\ i \in fx.pending
  /\ LET name == fx.status.rls.tables[i]
         e1 == IF ok
                 THEN QuerySuccess(Ev, fx.tableQueryLogId[i],
                                   NormalizeRows(StatementPayload))
                 ELSE QueryFailure(Ev)
         e2 == IF ok
                 THEN Log(e1, "rls_table_fix_success", "success", fx.tableFixId[i])
                 ELSE Log(e1, "rls_table_fix_failure", "error", Null)
         results == [fx.tableResult EXCEPT
                       ![i] = [table |-> name, success |-> ok,
                               error |-> IF ok THEN "null" ELSE "message"]]
         o1 == [Here EXCEPT
                  !.e = e2,
                  !.remote = IF ok THEN EnableRls(remote, {name}) ELSE remote,
                  !.fx.pending = @ \ {i},
                  !.fx.tableResult = results]
     IN IF fx.pending = {i}
          THEN LET all == FallbackSuccess(results)
                   e3 == Log(e2, "rls_individual_fixes_completed",
                             IF all THEN "success" ELSE "partial_success",
                             fx.rlsFixId)
               IN Apply(EnterPitr([o1 EXCEPT
                    !.e = e3,
                    !.fx.fixes.rls.tables = results,
                    !.fx.fixes.rls.success = all]))
          ELSE Apply(o1)

\* the PITR fix without its fallback: a failed statement fails the category
PitrSqlReturnNoFallback(ok) ==
  /\ pc = "pitr_sql"
  /\ IF ok
       THEN LET e1 == QuerySuccess(Ev, fx.queryLogId,
                                   NormalizeRows(SlotPayload))
                e2 == Log(e1, "pitr_sql_fix_success", "success", fx.pitrFixId)
            IN Apply(Aggregate([Here EXCEPT
                 !.e = e2, !.remote = CreateSlot(remote),
                 !.fx.fixes.pitr.applied = TRUE,
                 !.fx.fixes.pitr.success = TRUE]))
       ELSE LET e1 == QueryFailure(Ev)
                e2 == Log(e1, "pitr_sql_fix_failure", "warning", fx.pitrFixId)
                e3 == Log(e2, "pitr_fix_failure", "error", Null)
            IN Apply(Aggregate([Here EXCEPT
                 !.e = e3,
                 !.fx.fixes.pitr.applied = TRUE,
                 !.fx.fixes.pitr.error = "message"]))

\* server.js:1177-1216: the replication-slot statement returns; on failure
\* the backups PATCH is issued.
PitrSqlReturn(ok) ==
  /\ pc = "pitr_sql"
  /\ IF ok
       THEN LET e1 == QuerySuccess(Ev, fx.queryLogId,
                                   NormalizeRows(SlotPayload))
                e2 == Log(e1, "pitr_sql_fix_success", "success", fx.pitrFixId)
            IN Apply(Aggregate([Here EXCEPT
                 !.e = e2, !.remote = CreateSlot(remote),
                 !.fx.fixes.pitr.applied = TRUE,
                 !.fx.fixes.pitr.success = TRUE]))
       ELSE LET e1 == QueryFailure(Ev)
                e2 == Log(e1, "pitr_sql_fix_failure", "warning", fx.pitrFixId)
                e3 == Log(e2, "pitr_api_fix_attempt", "info", fx.pitrFixId)
            IN Apply([Here EXCEPT
                 !.e = e3, !.pc = "pitr_patch",
                 !.calls = Append(remoteCalls, Call("PATCH", "backups"))])

\* server.js:1208-1242: the backups PATCH returns.
PitrPatchReturn(ok) ==
  /\ pc = "pitr_patch"
  /\ IF ok
       THEN LET e1 == Log(Ev, "pitr_api_fix_success", "success", fx.pitrFixId)
            IN Apply(Aggregate([Here EXCEPT
                 !.e = e1, !.remote = PatchBackups(remote),
                 !.fx.fixes.pitr.applied = TRUE,
                 !.fx.fixes.pitr.success = TRUE]))
       ELSE LET e1 == Log(Ev, "pitr_fix_failure", "error", Null)
            IN Apply(Aggregate([Here EXCEPT
                 !.e = e1,
                 !.fx.fixes.pitr.applied = TRUE,
                 !.fx.fixes.pitr.error = "message"]))

\* ------------------------------------------------------------ specification
AuthChoices == {AuthNull, AuthOff, AuthOn}
BackupChoices == {"bool_true", "bool_false", "str_true"}

\* Projects for the check: users, tables with their policies, backups.
CheckRemotes ==
  [auth : AuthChoices, users : SeqsUpTo(UserRows, MaxUsers),
   tables : SeqsUpTo(TableRows, MaxTables), backups : BackupChoices,
   slot : {FALSE}]

\* Projects for the fix, which reads neither the users nor the policies.
FixRemotes ==
  [auth : AuthChoices, users : {<<>>},
   tables : SeqsUpTo([rls_enabled : BOOLEAN, has_policies : {FALSE}], MaxTables),
   backups : BackupChoices, slot : {FALSE}]

\* no response body under normalization
NoPayload == [kind |-> "none", payload |-> [isArray |-> FALSE, nested |-> FALSE,
                                           data |-> <<>>]]
NoRows == [done |-> FALSE, rows |-> <<>>]

NoPrev == [kind |-> "none", response |-> NoResponse, fx |-> FxIdle]

\* The server after construction (server.js:47), before its first request.
FreshServer ==
  /\ evidenceLogs = <<>>
  /\ projectFiles = {}
  /\ mainLogFile = <<>>
  /\ pc = "idle"
  /\ ck = CkIdle
  /\ fx = FxIdle
  /\ response = NoResponse
  /\ remoteCalls = <<>>
  /\ round = 1
  /\ prev = NoPrev
  /\ inflight = <<>>
  /\ clock = 1
  /\ result = NoRows
  /\ token = NoToken

\* The first request carries its token in the Authorization header, and
\* every remote call returns.
Fresh ==
  FreshServer /\ arg = NoPayload /\ req = BearerRequest /\ hung = "none"

InitCheck ==
  /\ Fresh
  /\ remote \in CheckRemotes
  /\ fs = "ok"

InitFix ==
  /\ Fresh
  /\ remote \in FixRemotes
  /\ fs = "ok"

Bodies == [fixMfa : FlagValues, fixRls : FlagValues, fixPitr : FlagValues]

Check ==
  \/ CheckStart
  \/ \E ok \in BOOLEAN : MfaAuthReturn(ok)
  \/ \E ok \in BOOLEAN : MfaUsersReturn(ok)
  \/ \E ok \in BOOLEAN : RlsReturn(ok)
  \/ \E ok \in BOOLEAN : PitrReturn(ok)
  \/ CheckRespond

FixSteps ==
  \/ \E ok \in BOOLEAN : ProbeMfaReturn(ok)
  \/ \E ok \in BOOLEAN : ProbeRlsReturn(ok)
  \/ \E ok \in BOOLEAN : ProbePitrReturn(ok)
  \/ \E ok \in BOOLEAN : MfaPatchReturn(ok)
  \/ \E ok \in BOOLEAN : RlsBatchReturn(ok)
  \/ \E i \in 1..MaxTables, ok \in BOOLEAN : RlsTableReturn(i, ok)
  \/ \E ok \in BOOLEAN : PitrSqlReturn(ok)
  \/ \E ok \in BOOLEAN : PitrPatchReturn(ok)

Fix ==
  \/ \E body \in Bodies : FixStart(body)
  \/ FixSteps

\* The response has been sent; the next request arrives.  The in-memory
\* list, the files and the remote project stay as the request left them.
NextRequest ==
  /\ pc = "done"
  /\ round < MaxRequests
  /\ pc' = "idle"
  /\ round' = round + 1
  /\ prev' = [kind |-> response.kind, response |-> response, fx |-> fx]
  /\ ck' = CkIdle
  /\ fx' = FxIdle
  /\ response' = NoResponse
  /\ remoteCalls' = <<>>
  /\ token' = NoToken
  /\ UNCHANGED <<remote, fs, evidenceLogs, projectFiles, mainLogFile,
                 inflight, clock, arg, result, req, hung>>

\* Projects where every category needs a fix, for the runs that vary the
\* file system instead.
FsRemotes ==
  [auth : {AuthOff}, users : SeqsUpTo({FALSE}, MaxUsers),
   tables : SeqsUpTo({[rls_enabled |-> FALSE, has_policies |-> FALSE]}, MaxTables),
   backups : {"bool_false"}, slot : {FALSE}]

InitFs ==
  /\ Fresh
  /\ remote \in FsRemotes
  /\ fs \in FsModes

\* the body {} : every opt-in flag takes its default
DefaultBody == NoBody

\* logEvidence calls on their own, overlapping in every way.
InitRecorder ==
  /\ Fresh
  /\ remote = [auth |-> AuthOn, users |-> <<>>, tables |-> <<>>,
               backups |-> "bool_true", slot |-> FALSE]
  /\ fs \in FsModes

Recorder ==
  \/ \E action \in RecordedActions, hasProject \in BOOLEAN :
       RecordCall(action, hasProject)
  \/ \E c \in 1..MaxCalls : WriteProjectFile(c)
  \/ \E c \in 1..MaxCalls : ReadMainLog(c)
  \/ \E c \in 1..MaxCalls : WriteMainLog(c)
  \/ Tick

SpecRecorder == InitRecorder /\ [][Recorder]_vars

\* Response bodies of the SQL endpoint: a flat array of rows, an array of
\* arrays of rows, no body, or a body that is not an array.
PayloadRows == {"row_a", "row_b"}

NormalizeArgs ==
  {[kind |-> "flat",
    payload |-> [isArray |-> TRUE, nested |-> FALSE, data |-> d]] :
      d \in SeqsUpTo(PayloadRows, MaxPayloadLen)}
  \cup
  {[kind |-> "nested",
    payload |-> [isArray |-> TRUE, nested |-> Len(d) > 0, data |-> d]] :
      d \in SeqsUpTo(SeqsUpTo(PayloadRows, MaxPayloadLen), MaxPayloadLen)}
  \cup
  {[kind |-> k,
    payload |-> [isArray |-> FALSE, nested |-> FALSE, data |-> <<>>]] :
      k \in {"absent", "object"}}

\* server.js:189-196: executeQuery turns the response body into rows.
Normalize ==
  /\ ~result.done
  /\ arg.kind /= "none"
  /\ result' = [done |-> TRUE, rows |-> NormalizeRows(arg.payload)]
  /\ UNCHANGED <<remote, fs, evidenceLogs, projectFiles, mainLogFile, pc, ck,
                 fx, response, remoteCalls, round, prev, inflight, clock, arg,
                 req, token, hung>>

InitNormalize ==
  /\ FreshServer
  /\ remote = [auth |-> AuthOn, users |-> <<>>, tables |-> <<>>,
               backups |-> "bool_true", slot |-> FALSE]
  /\ fs = "ok"
  /\ arg \in NormalizeArgs
  /\ req = BearerRequest
  /\ hung = "none"

\* executeQuery's normalization applied to a response body.
SpecNormalize == InitNormalize /\ [][Normalize]_vars

\* The values `pitr_enabled` may have in the backups configuration; "undefined"
\* is the field, or the whole body, missing.
PitrFieldValues == {"undefined", "null", "bool_true", "bool_false", "str_true",
                    "num_1"}

InitBackups ==
  /\ Fresh
  /\ remote \in [auth : {AuthOn}, users : SeqsUpTo(UserRows, MaxUsers),
                  tables : {<<>>}, backups : PitrFieldValues, slot : {FALSE}]
  /\ fs = "ok"

\* One check request on a project with any backups configuration.
SpecBackups == InitBackups /\ [][Check]_vars

\* A project that fails every control, with one table.
FailingProject ==
  [auth |-> AuthOff, users |-> <<>>,
   tables |-> <<[rls_enabled |-> FALSE, has_policies |-> FALSE]>>,
   backups |-> "bool_false", slot |-> FALSE]

Logs ==
  \/ \E withProject \in BOOLEAN : LogsStart(withProject)
  \/ LogsFilesReturn

InitToken ==
  /\ FreshServer
  /\ arg = NoPayload
  /\ hung = "none"
  /\ req \in Requests
  /\ remote = FailingProject
  /\ fs = "ok"

\* One request to a route behind validateToken, with its token anywhere.
SpecToken ==
  InitToken /\ [][RejectRequest \/ Check \/ FixStart(DefaultBody) \/ FixSteps
                   \/ Logs]_vars

\* fs.readdir or fs.readFile of the project's directory may fail as well
ListFsModes == FsModes \cup {"list_fails"}

InitLogs ==
  /\ FreshServer
  /\ arg = NoPayload
  /\ hung = "none"
  /\ req \in Requests
  /\ remote = FailingProject
  /\ fs \in ListFsModes

\* Requests for the evidence, one after the other; each leaves its own
\* record for the next to list.
SpecLogs == InitLogs /\ [][RejectRequest \/ Logs \/ NextRequest]_vars

\* Projects with two users, one of them with an MFA factor, three tables, one
\* of them with row security off, and PITR not enabled.
ScenarioRemotes ==
  {r \in [auth : {AuthOn, AuthOff}, users : [1..2 -> UserRows],
          tables : [1..3 -> TableRows], backups : {"bool_false", "undefined"},
          slot : {FALSE}] :
     /\ Cardinality({i \in 1..2 : r.users[i]}) = 1
     /\ Cardinality({i \in 1..3 : ~r.tables[i].rls_enabled}) = 1}

InitScenario ==
  /\ Fresh
  /\ remote \in ScenarioRemotes
  /\ fs = "ok"

\* One check request on such a project.
SpecScenario == InitScenario /\ [][Check]_vars

\* The remote calls of a check request, one of which may never return.
HangTargets == {"auth", "mfa_user_query", "rls_tables_query", "backups"}

CheckHang ==
  \/ CheckStart
  \/ hung /= "auth" /\ \E ok \in BOOLEAN : MfaAuthReturn(ok)
  \/ hung /= "mfa_user_query" /\ \E ok \in BOOLEAN : MfaUsersReturn(ok)
  \/ hung /= "rls_tables_query" /\ \E ok \in BOOLEAN : RlsReturn(ok)
  \/ hung /= "backups" /\ \E ok \in BOOLEAN : PitrReturn(ok)
  \/ CheckRespond

InitHang ==
  /\ FreshServer
  /\ arg = NoPayload
  /\ req = BearerRequest
  /\ hung \in HangTargets \cup {"none"}
  /\ remote \in [auth : AuthChoices, users : SeqsUpTo(UserRows, MaxUsers),
                  tables : {FailingProject.tables}, backups : {"bool_false"},
                  slot : {FALSE}]
  /\ fs = "ok"

\* One check request; every remote call returns in the end except the one
\* that hangs.
SpecHang == InitHang /\ [][CheckHang]_vars /\ WF_vars(CheckHang)

\* One check request, from its arrival to its response.
SpecCheck == InitCheck /\ [][Check]_vars

\* One fix request, from its arrival to its response.
SpecFix == InitFix /\ [][Fix]_vars

\* One fix request whose remote calls and file operations all return in the
\* end, with success or with an error.
LiveRemotes ==
  [auth : AuthChoices, users : {<<>>},
   tables : SeqsUpTo({[rls_enabled |-> FALSE, has_policies |-> FALSE]}, MaxTables),
   backups : BackupChoices, slot : {FALSE}]

\* each flag left out or false
OptOutBodies ==
  [fixMfa : {"undefined", "bool_false"}, fixRls : {"undefined", "bool_false"},
   fixPitr : {"undefined", "bool_false"}]

InitFixLive ==
  /\ Fresh
  /\ remote \in LiveRemotes
  /\ fs = "ok"

SpecFixLive ==
  /\ InitFixLive
  /\ [][(\E body \in OptOutBodies : FixStart(body)) \/ FixSteps]_vars
  /\ WF_vars(FixSteps)

\* One request, check or fix, on a file system that works or fails in one way.
SpecFs == InitFs /\ [][Check \/ Fix]_vars

\* Fix requests with the default flags, one after the other.
SpecRepeat ==
  InitFix /\ [][FixStart(DefaultBody) \/ FixSteps \/ NextRequest]_vars

\* A remote project may carry a field `down`: the read calls it answers with
\* an error, every time, until the project changes.
Answers(target) == target \notin remote.down

\* A check request on such a project (server.js:371-709).
SteadyCheck ==
  \/ CheckStart
  \/ \E ok \in {Answers("auth")} : MfaAuthReturn(ok)
  \/ \E ok \in {Answers("mfa_user_query")} : MfaUsersReturn(ok)
  \/ \E ok \in {Answers("rls_tables_query")} : RlsReturn(ok)
  \/ \E ok \in {Answers("backups")} : PitrReturn(ok)
  \/ CheckRespond

\* A fix request with the default flags on such a project
\* (server.js:730-1293); a mutation may still fail.
SteadyFix ==
  \/ FixStart(DefaultBody)
  \/ \E ok \in {Answers("auth")} : ProbeMfaReturn(ok)
  \/ \E ok \in {Answers("rls_missing_tables_query")} : ProbeRlsReturn(ok)
  \/ \E ok \in {Answers("backups")} : ProbePitrReturn(ok)
  \/ \E ok \in BOOLEAN : MfaPatchReturn(ok)
  \/ \E ok \in BOOLEAN : RlsBatchReturn(ok)
  \/ \E i \in 1..MaxTables, ok \in BOOLEAN : RlsTableReturn(i, ok)
  \/ \E ok \in BOOLEAN : PitrSqlReturn(ok)
  \/ \E ok \in BOOLEAN : PitrPatchReturn(ok)

Outages == {{}, {"auth"}, {"backups"}}

InitFollowUp ==
  /\ Fresh
  /\ remote \in [auth : {AuthOff, AuthOn}, users : {<<>>, <<FALSE>>},
                  tables : {<<>>, FailingProject.tables},
                  backups : PitrFieldValues, slot : {FALSE}, down : Outages]
  /\ fs = "ok"

\* Check and fix requests on one project, one after the other.
SpecFollowUp == InitFollowUp /\ [][SteadyCheck \/ SteadyFix \/ NextRequest]_vars

CheckOutages ==
  {{}, {"auth"}, {"mfa_user_query"}, {"rls_tables_query"}, {"backups"}}

InitRecheck ==
  /\ Fresh
  /\ remote \in [auth : {AuthOff, AuthOn}, users : {<<TRUE>>, <<FALSE>>},
                  tables : {FailingProject.tables},
                  backups : {"bool_true", "bool_false"}, slot : {FALSE},
                  down : CheckOutages]
  /\ fs = "ok"

\* Check requests on one project, one after the other.
SpecRecheck == InitRecheck /\ [][SteadyCheck \/ NextRequest]_vars

\* server.js:153-165 and 378-383: validateToken starts its logEvidence call
\* without awaiting it and calls next(); the handler's first logEvidence call
\* starts in the same turn, before any file operation of the first completes.
Handoff ==
  \/ inflight = <<>> /\ RecordCall("token_validation_attempt", FALSE)
  \/ /\ Len(inflight) = 1
     /\ inflight[1].stage = "read"
     /\ RecordCall("compliance_check_initiated", TRUE)
  \/ \E c \in 1..MaxCalls : WriteProjectFile(c)
  \/ \E c \in 1..MaxCalls : ReadMainLog(c)
  \/ \E c \in 1..MaxCalls : WriteMainLog(c)
  \/ Tick

\* The first two logEvidence calls of one request, one await at a time.
SpecHandoff == InitRecorder /\ [][Handoff]_vars

\* ------------------------------------------------------------------ claims
HasRecord(action) == \E i \in 1..Len(evidenceLogs) : evidenceLogs[i].action = action
CountRecords(action) ==
  Cardinality({i \in 1..Len(evidenceLogs) : evidenceLogs[i].action = action})
Reported == pc = "done" /\ response.kind = "report"

\* C1: in every check report overallStatus is 'pass' exactly when the MFA
\* summary's failing count is 0, the RLS summary's failing count is 0 and the
\* PITR result's status is 'pass'; otherwise it is 'fail'.
C1_OverallStatus ==
  Reported =>
    /\ response.summary.overallStatus \in {"pass", "fail"}
    /\ response.summary.overallStatus = "pass" <=>
         /\ response.summary.mfa.failing = 0
         /\ response.summary.rls.failing = 0
         /\ response.pitr.status = "pass"

C1_Witness ==
  /\ Reported
  /\ response.summary.overallStatus = "pass"
  /\ response.summary.mfa.total > 0
  /\ response.summary.rls.total > 0

\* C2: whatever remote calls fail, a checker that has not finished can still
\* finish, the merge runs once all three have, and the request is answered
\* with HTTP 200 and the merged report holding each checker's own result.
C2_FailureIsolation ==
  /\ pc \in {"idle", "checking", "done"}
  /\ pc = "checking" =>
       /\ ck.mfa = "auth" => ENABLED (MfaAuthReturn(TRUE)) /\ ENABLED (MfaAuthReturn(FALSE))
       /\ ck.mfa = "users" => ENABLED (MfaUsersReturn(TRUE)) /\ ENABLED (MfaUsersReturn(FALSE))
       /\ ck.rls = "query" => ENABLED (RlsReturn(TRUE)) /\ ENABLED (RlsReturn(FALSE))
       /\ ck.pitr = "backups" => ENABLED (PitrReturn(TRUE)) /\ ENABLED (PitrReturn(FALSE))
       /\ (ck.mfa = "done" /\ ck.rls = "done" /\ ck.pitr = "done") => ENABLED CheckRespond
  /\ pc = "done" =>
       /\ response.http = 200
       /\ response.kind = "report"
       /\ response.mfa = ck.mfaResult /\ response.mfa.failed = HasRecord("mfa_check_failed")
       /\ response.rls = ck.rlsResult /\ response.rls.failed = HasRecord("rls_check_failed")
       /\ response.pitr = ck.pitrResult /\ response.pitr.failed = HasRecord("pitr_check_failed")

C2_Witness ==
  /\ Reported
  /\ response.http = 200
  /\ response.mfa.failed /\ ~response.rls.failed /\ response.pitr.failed

\* C3: in every check report each of summary.mfa, summary.rls and
\* summary.pitr has passing + failing = total, and a category whose probe
\* failed has total = passing = failing = 0.
SummaryAddsUp(s) == s.passing + s.failing = s.total

C3_SummaryCounts ==
  Reported =>
    /\ SummaryAddsUp(response.summary.mfa)
    /\ SummaryAddsUp(response.summary.rls)
    /\ SummaryAddsUp(response.summary.pitr)
    /\ (HasRecord("mfa_check_failed") \/ HasRecord("mfa_user_query_failure"))
         => response.summary.mfa = ZeroSummary
    /\ HasRecord("rls_check_failed") => response.summary.rls = ZeroSummary
    /\ HasRecord("pitr_check_failed") => response.summary.pitr = ZeroSummary

C3_Witness ==
  /\ Reported
  /\ HasRecord("pitr_check_failed")
  /\ HasRecord("mfa_user_query_failure")
  /\ response.summary.rls.passing > 0 /\ response.summary.rls.failing > 0

Fixed == pc = "done" /\ response.kind = "fix"
Planned == pc \in {"mfa_patch", "rls_batch", "rls_tables", "pitr_sql",
                   "pitr_patch", "done"}
Issued(op, target) ==
  \E i \in 1..Len(remoteCalls) :
    remoteCalls[i].op = op /\ remoteCalls[i].target = target
OptedIn(v) == v \in {"undefined", "bool_true"}

\* C4: a category's needed flag is true iff this request's status probe
\* reported that it needs a fix and the caller's opt-in flag (default true)
\* is true; a category that is not needed is labelled 'no_action_needed' and
\* no mutating remote call is issued for it.
C4_NeededAndShortCircuit ==
  Planned =>
    /\ fx.fixes.mfa.needed <=> (fx.status.mfa.needsFix /\ OptedIn(fx.body.fixMfa))
    /\ fx.fixes.rls.needed <=> (fx.status.rls.needsFix /\ OptedIn(fx.body.fixRls))
    /\ fx.fixes.pitr.needed <=> (fx.status.pitr.needsFix /\ OptedIn(fx.body.fixPitr))
    /\ ~fx.fixes.mfa.needed =>
         /\ ~Issued("PATCH", "auth")
         /\ pc = "done" => response.summary.mfa = "no_action_needed"
    /\ ~fx.fixes.rls.needed =>
         /\ ~Issued("POST", "rls_batch_enable")
         /\ ~Issued("POST", "rls_enable_table")
         /\ pc = "done" => response.summary.rls = "no_action_needed"
    /\ ~fx.fixes.pitr.needed =>
         /\ ~Issued("POST", "pitr_enable_sql")
         /\ ~Issued("PATCH", "backups")
         /\ pc = "done" => response.summary.pitr = "no_action_needed"

C4_Witness ==
  /\ Fixed
  /\ fx.status.rls.needsFix /\ fx.body.fixRls = "bool_false"
  /\ response.summary.rls = "no_action_needed"
  /\ fx.status.mfa.needsFix /\ fx.body.fixMfa = "undefined"
  /\ response.summary.mfa = "fixed"

\* C5: when the RLS fix is needed the batch transaction is attempted first
\* and per-table statements are issued only if it failed; the label is
\* 'fixed' iff the batch succeeded or every per-table statement succeeded,
\* 'partially_fixed' iff at least one but not every per-table statement
\* succeeded, 'failed' iff none did.
C5_RlsFallback ==
  LET batchOk == HasRecord("rls_fix_success")
      batchFailed == HasRecord("rls_batch_fix_failure")
      n == Len(fx.status.rls.tables)
      nOk == CountRecords("rls_table_fix_success")
      tableCalls == {i \in 1..Len(remoteCalls) :
                       remoteCalls[i].target = "rls_enable_table"}
  IN /\ \A i \in tableCalls :
          /\ batchFailed
          /\ \E j \in 1..(i - 1) : remoteCalls[j].target = "rls_batch_enable"
     /\ (Fixed /\ fx.fixes.rls.needed) =>
          /\ Issued("POST", "rls_batch_enable")
          /\ batchOk <=> ~batchFailed
          /\ batchFailed => Cardinality(tableCalls) = n
          /\ response.summary.rls = "fixed" <=>
               (batchOk \/ (batchFailed /\ nOk = n))
          /\ response.summary.rls = "partially_fixed" <=>
               (batchFailed /\ 0 < nOk /\ nOk < n)
          /\ response.summary.rls = "failed" <=> (batchFailed /\ nOk = 0)

C5_Witness ==
  /\ Fixed
  /\ response.summary.rls = "partially_fixed"
  /\ HasRecord("rls_batch_fix_failure")

\* C6: when the PITR fix is needed the replication-slot statement is
\* attempted first and the backups PATCH is issued only if it failed; the
\* label is 'fixed' iff one of the two succeeded and 'failed' iff both failed.
C6_PitrFallback ==
  LET sqlOk == HasRecord("pitr_sql_fix_success")
      sqlFailed == HasRecord("pitr_sql_fix_failure")
      patchOk == HasRecord("pitr_api_fix_success")
      patchFailed == HasRecord("pitr_fix_failure")
  IN /\ Issued("PATCH", "backups") =>
          /\ sqlFailed
          /\ \E i, j \in 1..Len(remoteCalls) :
               /\ i < j
               /\ remoteCalls[i].target = "pitr_enable_sql"
               /\ remoteCalls[j] = Call("PATCH", "backups")
     /\ (Fixed /\ fx.fixes.pitr.needed) =>
          /\ Issued("POST", "pitr_enable_sql")
          /\ sqlOk <=> ~sqlFailed
          /\ Issued("PATCH", "backups") <=> sqlFailed
          /\ response.summary.pitr = "fixed" <=> (sqlOk \/ patchOk)
          /\ response.summary.pitr = "failed" <=> (sqlFailed /\ patchFailed)
          /\ response.summary.pitr \in {"fixed", "failed"}

C6_Witness ==
  /\ Fixed
  /\ HasRecord("pitr_sql_fix_failure")
  /\ HasRecord("pitr_api_fix_success")
  /\ response.summary.pitr = "fixed"

\* C7: overall success, recorded as status 'success' on the
\* compliance_fix_completed record, is true iff every needed category
\* succeeded; a category that is not needed never makes it false.
C7_AllSuccessful ==
  Fixed =>
    LET last == evidenceLogs[Len(evidenceLogs)]
        good(f) == f.needed => f.success
        all == good(response.details.mfa) /\ good(response.details.rls)
                 /\ good(response.details.pitr)
    IN /\ response.allSuccessful <=> all
       /\ last.action = "compliance_fix_completed"
       /\ last.status = "success" <=> all
       /\ last.status \in {"success", "partial_success"}

C7_Witness ==
  /\ Fixed
  /\ response.allSuccessful
  /\ ~response.details.mfa.needed /\ ~response.details.mfa.success
  /\ response.details.rls.needed
  /\ evidenceLogs[Len(evidenceLogs)].status = "success"

\* C8: when the MFA fix is needed and its PATCH fails, the MFA label is
\* 'failed', the RLS and PITR fixes are still attempted whenever they are
\* needed, and the request is answered with HTTP 200 and all three outcomes.
C8_MfaFailureContinues ==
  /\ pc \in {"idle", "probe_mfa", "probe_rls", "probe_pitr", "mfa_patch",
            "rls_batch", "rls_tables", "pitr_sql", "pitr_patch", "done"}
  /\ pc = "mfa_patch" => ENABLED MfaPatchReturn(FALSE)
  /\ pc = "rls_tables" => fx.pending /= {}
  /\ (pc \notin {"idle", "probe_mfa", "probe_rls", "probe_pitr", "mfa_patch"}
        /\ fx.fixes.mfa.needed /\ ~fx.fixes.mfa.success) =>
       /\ HasRecord("mfa_fix_failure")
       /\ fx.fixes.rls.needed => Issued("POST", "rls_batch_enable")
       /\ (fx.fixes.pitr.needed /\ pc \notin {"rls_batch", "rls_tables"})
            => Issued("POST", "pitr_enable_sql")
  /\ pc = "done" /\ HasRecord("mfa_fix_failure") =>
       /\ response.http = 200 /\ response.kind = "fix"
       /\ response.summary.mfa = "failed"
       /\ fx.fixes.rls.needed => Issued("POST", "rls_batch_enable")
       /\ fx.fixes.pitr.needed => Issued("POST", "pitr_enable_sql")
       /\ response.summary.rls \in
            IF fx.fixes.rls.needed THEN {"fixed", "partially_fixed", "failed"}
            ELSE {"no_action_needed"}
       /\ response.summary.pitr \in
            IF fx.fixes.pitr.needed THEN {"fixed", "failed"}
            ELSE {"no_action_needed"}

C8_Witness ==
  /\ Fixed
  /\ HasRecord("mfa_fix_failure")
  /\ response.summary.mfa = "failed"
  /\ response.summary.rls = "fixed"
  /\ response.summary.pitr = "fixed"

\* C9: if a fix request completes with every needed category successful, an
\* immediately following fix request on the same project yields
\* 'no_action_needed' for MFA, RLS and PITR.  Stated for two requests with
\* the default flags whose status probes all succeeded.
ProbesOk(f) ==
  ~f.status.mfa.failed /\ ~f.status.rls.failed /\ ~f.status.pitr.failed

FullySucceeded(r) ==
  /\ r.kind = "fix"
  /\ r.summary.mfa \in {"fixed", "no_action_needed"}
  /\ r.summary.rls \in {"fixed", "no_action_needed"}
  /\ r.summary.pitr \in {"fixed", "no_action_needed"}

C9_Idempotent ==
  (/\ round > 1
   /\ Fixed
   /\ FullySucceeded(prev.response)
   /\ ProbesOk(prev.fx)
   /\ ProbesOk(fx)) =>
    /\ response.summary.mfa = "no_action_needed"
    /\ response.summary.rls = "no_action_needed"
    /\ response.summary.pitr = "no_action_needed"

\* C10: logEvidence never raises to its caller; when mkdir, the per-project
\* write or the write of the global log fails it returns null, when only the
\* read of the global log fails it restarts the log from the empty array and
\* returns the id; in every case the record is appended to the in-memory list
\* and the enclosing request goes on to its normal response.
InCheck == ck.mfa /= "off"
RequestId == IF InCheck THEN ck.checkId ELSE fx.fixId
NullModes == {"mkdir_fails", "project_write_fails", "write_fails"}

C10_EvidenceNeverRaises ==
  /\ pc /= "aborted"
  /\ \A i \in 1..Len(evidenceLogs) : evidenceLogs[i].id = i
  /\ pc /= "idle" =>
       /\ Len(evidenceLogs) >= 2
       /\ evidenceLogs[1].action = "token_validation_attempt"
       /\ evidenceLogs[2].action \in
            {"compliance_check_initiated", "compliance_fix_initiated"}
       /\ RequestId = Null <=> fs \in NullModes
       /\ RequestId /= Null => RequestId = evidenceLogs[2].id
       /\ fs = "read_fails" => mainLogFile = <<Len(evidenceLogs)>>
       /\ fs \in {"mkdir_fails", "project_write_fails"} =>
            projectFiles = {} /\ mainLogFile = <<1>>
       /\ fs = "write_fails" =>
            mainLogFile = <<>> /\ projectFiles = 2..Len(evidenceLogs)
       /\ fs = "ok" => Len(mainLogFile) = Len(evidenceLogs)
  /\ pc = "done" =>
       /\ response.http = 200
       /\ response.kind \in {"report", "fix"}
       /\ evidenceLogs[Len(evidenceLogs)].action =
            IF InCheck THEN "compliance_check_completed"
            ELSE "compliance_fix_completed"

C10_Witness ==
  /\ pc = "done"
  /\ fs = "write_fails"
  /\ RequestId = Null
  /\ response.http = 200
  /\ Len(evidenceLogs) > 5

\* C10 as stated: every file-system failure, the failed read of the global
\* log included, makes the call return null.
C10_NullOnEveryFailure ==
  pc /= "idle" => (RequestId = Null <=> fs /= "ok")

\* C11: every evidence record is immutable once written: no step changes any
\* field of a record already in the in-memory list, the details payload
\* included; the compliance_fix_plan record keeps the plan as it was logged.
C11_RecordsImmutable ==
  [][\A i \in 1..Len(evidenceLogs) :
       /\ i <= Len(evidenceLogs')
       /\ evidenceLogs'[i] = evidenceLogs[i]]_vars

\* C12: under any interleaving of logEvidence calls the in-memory list holds
\* the record of every call exactly once and in call order; the global log
\* file is best-effort: when two calls overlap in reading and rewriting it, a
\* state is reachable where both returned their id and the file lacks one of
\* the two records.
C12_MemoryInCallOrder ==
  /\ Len(evidenceLogs) = Len(inflight)
  /\ \A i \in 1..Len(inflight) :
       /\ evidenceLogs[i].id = i
       /\ evidenceLogs[i].action = inflight[i].action
       /\ evidenceLogs[i].hasProject = inflight[i].hasProject
  /\ \A k \in 1..Len(mainLogFile) : mainLogFile[k] \in 1..Len(inflight)

InMainLog(id) == \E k \in 1..Len(mainLogFile) : mainLogFile[k] = id

C12_Witness ==
  /\ fs = "ok"
  /\ \E i, j \in 1..Len(inflight) :
       /\ i /= j
       /\ inflight[i].ret = i /\ inflight[j].ret = j
       /\ ~InMainLog(i) /\ InMainLog(j)
  /\ \A i \in 1..Len(inflight) : inflight[i].stage = "returned"

\* C13: every logEvidence call with a projectRef whose per-project write
\* succeeded leaves its record in a file of its own, which no other call
\* overwrites, so getProjectLogsFromFiles returns every such record.
C13_OneFilePerCall ==
  \A i \in 1..Len(inflight) :
    inflight[i].wrote => evidenceLogs[i] \in GetProjectLogsFromFiles

\* C14: for every *_fix_attempt record written during a fix request, its id
\* is the parentFixId / ...FixId of at least one later success or failure
\* record, whether the attempted operation succeeded or failed.
AttemptActions ==
  {"mfa_fix_attempt", "rls_fix_attempt", "rls_table_fix_attempt",
   "pitr_fix_attempt", "pitr_sql_fix_attempt", "pitr_api_fix_attempt"}

OutcomeActions ==
  {"mfa_fix_success", "mfa_fix_failure", "rls_fix_success",
   "rls_batch_fix_failure", "rls_table_fix_success", "rls_table_fix_failure",
   "pitr_sql_fix_success", "pitr_sql_fix_failure", "pitr_api_fix_success",
   "pitr_fix_failure"}

C14_AttemptsCorrelated ==
  Fixed =>
    \A i \in 1..Len(evidenceLogs) :
      evidenceLogs[i].action \in AttemptActions =>
        \E j \in (i + 1)..Len(evidenceLogs) :
          /\ evidenceLogs[j].action \in OutcomeActions
          /\ evidenceLogs[j].parent = evidenceLogs[i].id

\* C15: every executeQuery call logs exactly one sql_query_attempt before its
\* POST, then exactly one of sql_query_success, which carries the attempt's
\* id and the row count and is followed by the caller going on with the rows,
\* or sql_query_failure, which is followed by the caller's handling of the
\* error thrown again; a failed query hands over no rows.
SqlTargets ==
  {"mfa_user_query", "rls_tables_query", "rls_missing_tables_query",
   "rls_batch_enable", "rls_enable_table", "pitr_enable_sql"}

\* the queries whose POST has not returned yet
PendingQueries ==
  IF pc = "checking"
    THEN (IF ck.mfa = "users" THEN 1 ELSE 0) + (IF ck.rls = "query" THEN 1 ELSE 0)
  ELSE IF pc \in {"probe_rls", "rls_batch", "pitr_sql"} THEN 1
  ELSE IF pc = "rls_tables" THEN Cardinality(fx.pending)
  ELSE 0

\* what each caller logs first once it has the rows, and in its catch
AfterRows ==
  {"user_mfa_status", "table_rls_status", "rls_tables_checked",
   "rls_fix_success", "rls_table_fix_success", "pitr_sql_fix_success"}
AfterThrow ==
  {"mfa_user_query_failure", "rls_check_failed", "rls_status_check_failed",
   "rls_batch_fix_failure", "rls_table_fix_failure", "pitr_sql_fix_failure"}

\* the file-system modes in which logEvidence returns the id
IdModes == {"ok", "read_fails"}

RECURSIVE Flatten(_)
Flatten(d) == IF d = <<>> THEN <<>> ELSE Head(d) \o Flatten(Tail(d))

MfaConfigured(cfg) ==
  \/ Truthy(cfg.sms_provider) /\ cfg.sms_provider /= "str_NONE"
  \/ Truthy(cfg.mfa_enabled)
  \/ Truthy(cfg.external_mfa_enabled)

C17_MfaEnabledGlobally ==
  (Reported /\ ~response.mfa.failed) =>
    response.mfa.mfaEnabledGlobally =
      IF MfaConfigured(remote.auth) THEN "bool_true" ELSE "bool_false"

\* C18: when the auth config was fetched and the user query fails, the MFA
\* checker does not fail: it logs the warning mfa_user_query_failure,
\* returns no users and an all-zero summary, and reports mfaEnabledGlobally
\* as derived from the config, enabled or not.
UserQueryFailed ==
  /\ Issued("POST", "mfa_user_query")
  /\ ck.mfa = "done"
  /\ ~\E i \in 1..Len(evidenceLogs) :
        /\ evidenceLogs[i].action = "sql_query_success"
        /\ evidenceLogs[i].parent = ck.mfaQueryLogId

C18_UserQueryDegrades ==
  UserQueryFailed =>
    /\ CountRecords("mfa_user_query_failure") = 1
    /\ \A i \in 1..Len(evidenceLogs) :
         evidenceLogs[i].action = "mfa_user_query_failure" =>
           /\ evidenceLogs[i].status = "warning"
           /\ evidenceLogs[i - 1].action = "sql_query_failure"
           /\ evidenceLogs[i + 1].action = "mfa_check_completed"
    /\ ~HasRecord("mfa_check_failed")
    /\ ck.mfa = "done"
    /\ ~ck.mfaResult.failed
    /\ ck.mfaResult.users = <<>>
    /\ ck.mfaResult.summary = ZeroSummary
    /\ ck.mfaResult.mfaEnabledGlobally = MfaEnabledValue(remote.auth)
    /\ Truthy(ck.mfaResult.mfaEnabledGlobally) <=> MfaConfigured(remote.auth)
    /\ Reported =>
         /\ response.http = 200
         /\ response.mfa = ck.mfaResult
         /\ response.summary.mfa = ZeroSummary

C18_Witness ==
  /\ Reported
  /\ HasRecord("mfa_user_query_failure")
  /\ Len(remote.users) > 0
  /\ response.mfa.mfaEnabledGlobally = "bool_true"
  /\ response.mfa.users = <<>>
  /\ response.summary.mfa.total = 0

\* C19: every table row the catalog query returned is reported with status
\* 'pass' iff its rls_enabled is set and 'fail' otherwise; has_policies is
\* reported but never changes the status.
C19_RlsStatus ==
  (Reported /\ ~response.rls.failed) =>
    LET tables == response.rls.tables
    IN /\ Len(tables) = Len(remote.tables)
       /\ \A i \in 1..Len(tables) :
            /\ tables[i].status = IF remote.tables[i].rls_enabled
                                    THEN "pass" ELSE "fail"
            /\ tables[i].rlsEnabled = remote.tables[i].rls_enabled
            /\ tables[i].hasPolicies = remote.tables[i].has_policies
       /\ \A i, j \in 1..Len(tables) :
            tables[i].rlsEnabled = tables[j].rlsEnabled =>
              tables[i].status = tables[j].status

C19_Witness ==
  /\ Reported
  /\ ~response.rls.failed
  /\ Len(response.rls.tables) = 2
  /\ response.rls.tables[1].rlsEnabled /\ response.rls.tables[2].rlsEnabled
  /\ response.rls.tables[1].hasPolicies /\ ~response.rls.tables[2].hasPolicies
  /\ response.rls.tables[1].status = "pass"
  /\ response.rls.tables[2].status = "pass"

\* C20: when the RLS checker's catalog query fails, the RLS result is the
\* error payload with an all-zero summary and no table list, one
\* rls_check_failed record is written, and the request still gets its
\* report: nothing is thrown past the orchestrator.
RlsQueryFailed ==
  /\ Issued("POST", "rls_tables_query")
  /\ ck.rls = "done"
  /\ ~\E i \in 1..Len(evidenceLogs) :
        /\ evidenceLogs[i].action = "sql_query_success"
        /\ evidenceLogs[i].parent = ck.rlsQueryLogId

C20_RlsQueryFailure ==
  RlsQueryFailed =>
    /\ ck.rlsResult = RlsError
    /\ ck.rlsResult.failed
    /\ ck.rlsResult.tables = <<>>
    /\ ck.rlsResult.summary = ZeroSummary
    /\ CountRecords("rls_check_failed") = 1
    /\ \A i \in 1..Len(evidenceLogs) :
         evidenceLogs[i].action = "rls_check_failed" =>
           /\ evidenceLogs[i].status = "error"
           /\ evidenceLogs[i].parent = ck.checkId
           /\ evidenceLogs[i - 1].action = "sql_query_failure"
    /\ ~HasRecord("table_rls_status")
    /\ ~HasRecord("rls_check_completed")
    /\ ~HasRecord("compliance_check_failed")
    /\ pc \in {"checking", "done"}
    /\ (pc = "checking" /\ ck.mfa = "done" /\ ck.pitr = "done")
         => ENABLED CheckRespond
    /\ pc = "done" =>
         /\ response.http = 200
         /\ response.kind = "report"
         /\ response.rls = RlsError
         /\ response.summary.rls = ZeroSummary

C20_Witness ==
  /\ Reported
  /\ RlsQueryFailed
  /\ Len(remote.tables) > 0
  /\ response.rls.failed
  /\ ~response.mfa.failed /\ ~response.pitr.failed
  /\ response.summary.mfa.total > 0

\* C21: for every backups configuration the remote API returns, the PITR
\* checker reports pitrEnabled = true and status 'pass' exactly when the
\* pitr_enabled field is the boolean true; for every other value (missing,
\* null, false, the string "true", the number 1) it reports pitrEnabled =
\* false and status 'fail'.
PitrFetched == ck.pitr = "done" /\ HasRecord("pitr_config_retrieved")

C21_PitrExactlyTrue ==
  PitrFetched =>
    /\ ~ck.pitrResult.failed
    /\ IF remote.backups = "bool_true"
         THEN ck.pitrResult.pitrEnabled /\ ck.pitrResult.status = "pass"
         ELSE ~ck.pitrResult.pitrEnabled /\ ck.pitrResult.status = "fail"
    /\ Reported => response.pitr = ck.pitrResult

C21_Witness ==
  /\ Reported
  /\ PitrFetched
  /\ remote.backups = "num_1"
  /\ ~response.pitr.pitrEnabled
  /\ response.pitr.status = "fail"

\* C22: when the PITR checker's backups fetch fails, the PITR result has
\* status 'error' (neither 'pass' nor 'fail') and pitrEnabled false, the
\* report's summary.pitr is {passing 0, failing 0, total 0}, and
\* overallStatus is 'fail'.
PitrFetchFailed == ck.pitr = "done" /\ HasRecord("pitr_check_failed")

C22_PitrFetchFailure ==
  PitrFetchFailed =>
    /\ ck.pitrResult.status = "error"
    /\ ~ck.pitrResult.pitrEnabled
    /\ Reported =>
         /\ response.pitr.status = "error"
         /\ ~response.pitr.pitrEnabled
         /\ response.summary.pitr = [passing |-> 0, failing |-> 0, total |-> 0]
         /\ response.summary.overallStatus = "fail"

C22_Witness ==
  /\ Reported
  /\ PitrFetchFailed
  /\ response.summary.mfa.failing = 0
  /\ response.summary.rls.failing = 0
  /\ response.summary.overallStatus = "fail"

\* C23: the token used for the request is the one from the highest-precedence
\* source that carries a token, in the order Authorization Bearer header,
\* supabase-token header, body token, query token; the request is rejected
\* with 401 'Supabase token is required' exactly when none of the four
\* sources carries a token, and in that case the route handler is never run.
Sources ==
  <<IF req.authorization = "bearer" THEN "tok_authorization" ELSE "undefined",
    req.supabaseToken, req.bodyToken, req.queryToken>>

CarryingSources == {i \in 1..Len(Sources) : Carries(Sources[i])}

HandlerRan ==
  \/ remoteCalls /= <<>>
  \/ HasRecord("compliance_check_initiated")
  \/ HasRecord("compliance_fix_initiated")
  \/ HasRecord("evidence_logs_request")

C23_TokenResolution ==
  pc /= "idle" =>
    IF CarryingSources = {}
      THEN /\ response = [http |-> 401, kind |-> "token_required"]
           /\ pc = "done"
           /\ ~HandlerRan
           /\ token = NoToken
      ELSE /\ response.http /= 401
           /\ HandlerRan
           /\ \E i \in CarryingSources :
                /\ token = Sources[i]
                /\ \A j \in CarryingSources : i <= j

C23_Witness ==
  /\ pc = "done"
  /\ req.authorization = "basic"
  /\ req.supabaseToken = "str_empty"
  /\ req.queryToken = "tok_query"
  /\ token = "tok_body"

\* C24: for a project whose user query returns 2 users of which 1 has an MFA
\* factor, whose catalog query returns 3 tables of which 1 has row security
\* off, and whose backups config has PITR disabled, the report has
\* summary.mfa = {total 2, passing 1, failing 1}, summary.rls = {total 3,
\* passing 2, failing 1}, summary.pitr = {passing 0, failing 1, total 1} and
\* overallStatus = 'fail'.
ScenarioAnswered ==
  /\ Len(remote.users) = 2
  /\ Cardinality({i \in 1..Len(remote.users) : remote.users[i]}) = 1
  /\ Len(remote.tables) = 3
  /\ Cardinality({i \in 1..Len(remote.tables) :
                    ~remote.tables[i].rls_enabled}) = 1
  /\ ~StrictTrue(remote.backups)
  /\ HasRecord("user_mfa_status")
  /\ HasRecord("table_rls_status")
  /\ HasRecord("pitr_config_retrieved")

C24_EndToEnd ==
  Reported /\ ScenarioAnswered =>
    /\ response.summary.mfa = [total |-> 2, passing |-> 1, failing |-> 1]
    /\ response.summary.rls = [total |-> 3, passing |-> 2, failing |-> 1]
    /\ response.summary.pitr = [passing |-> 0, failing |-> 1, total |-> 1]
    /\ response.summary.overallStatus = "fail"

C24_Witness ==
  /\ Reported
  /\ ScenarioAnswered
  /\ response.summary.rls.passing = 2
  /\ response.summary.mfa.total = 2

\* C25: listForProject returns the records stored in the project's directory,
\* each file contributing exactly one record, ordered by timestamp
\* descending, provided the directory and its files can be read; it returns
\* the empty list when the directory does not exist and when reading the
\* directory or one of its files fails; listAll returns exactly the
\* in-memory list, whatever the disk holds.
Listed == pc = "done" /\ response.kind = "logs"

RangeOf(logs) == {logs[i] : i \in 1..Len(logs)}

Descending(logs) ==
  \A i \in 1..Len(logs) : \A j \in 1..Len(logs) :
    i < j => logs[i].timestamp >= logs[j].timestamp

StoredRecords(logs) ==
  /\ RangeOf(logs) = GetProjectLogsFromFiles
  /\ Len(logs) = Cardinality(projectFiles)
  /\ Descending(logs)

C25_ListReadable ==
  Listed =>
    IF response.withProject
      THEN IF ProjectDirExists /\ fs /= "list_fails"
             THEN StoredRecords(response.logs)
             ELSE response.logs = <<>>
      ELSE response.logs = evidenceLogs

C25_Witness ==
  /\ Listed
  /\ response.withProject
  /\ Len(response.logs) > 1
  /\ response.logs[1].action = "evidence_logs_request"
  /\ response.logs[1].timestamp > response.logs[Len(response.logs)].timestamp

\* C25 as stated: listForProject returns the records stored in the project's
\* directory, one per file, ordered by timestamp descending, and the empty
\* list when the directory does not exist; listAll returns the in-memory list.
C25_ListForProject ==
  Listed =>
    IF response.withProject
      THEN IF ProjectDirExists
             THEN StoredRecords(response.logs)
             ELSE response.logs = <<>>
      ELSE response.logs = evidenceLogs

\* C26: within one fix request each remote mutation is issued at most once
\* (the MFA PATCH, the RLS batch transaction, each per-table ALTER TABLE per
\* flagged table, the PITR replication-slot SQL and the PITR backups PATCH),
\* and within one check or fix request no remote read (auth config, backups
\* config, catalog or user query), failed or not, is issued again.
Mutations ==
  {Call("PATCH", "auth"), Call("POST", "rls_batch_enable"),
   Call("POST", "pitr_enable_sql"), Call("PATCH", "backups")}
  \cup {TableCall(n) : n \in 1..MaxTables}

Reads ==
  {Call("GET", "auth"), Call("GET", "backups"),
   Call("POST", "rls_tables_query"), Call("POST", "rls_missing_tables_query"),
   Call("POST", "mfa_user_query")}

TimesIssued(c) == Cardinality({i \in 1..Len(remoteCalls) : remoteCalls[i] = c})

C26_NoBlindRetries ==
  /\ \A i \in 1..Len(remoteCalls) : remoteCalls[i] \in Mutations \cup Reads
  /\ \A c \in Mutations \cup Reads : TimesIssued(c) <= 1

C26_Witness ==
  /\ pc = "done"
  /\ response.kind = "fix"
  /\ HasRecord("mfa_status_checked")
  /\ HasRecord("rls_batch_fix_failure")
  /\ HasRecord("rls_table_fix_failure")
  /\ HasRecord("pitr_fix_failure")
  /\ TimesIssued(Call("PATCH", "auth")) = 1
  /\ TimesIssued(Call("POST", "rls_batch_enable")) = 1
  /\ \A n \in 1..MaxTables : TimesIssued(TableCall(n)) = 1
  /\ TimesIssued(Call("POST", "pitr_enable_sql")) = 1
  /\ TimesIssued(Call("PATCH", "backups")) = 1

\* C27: every fix request goes through its phases in the order planning, the
\* needed category fixes, aggregation, done, never returning to an earlier
\* phase; the category fixes run one after another (MFA finished before RLS
\* starts, RLS finished before PITR starts); and provided every remote call
\* and file operation eventually returns, the request eventually sends
\* exactly one HTTP response.
PhaseOf(p) ==
  CASE p = "idle" -> 0
    [] p \in {"probe_mfa", "probe_rls", "probe_pitr"} -> 1
    [] p = "mfa_patch" -> 2
    [] p \in {"rls_batch", "rls_tables"} -> 3
    [] p \in {"pitr_sql", "pitr_patch"} -> 4
    [] OTHER -> 5

MfaFinished ==
  fx.fixes.mfa.needed =>
    HasRecord("mfa_fix_success") \/ HasRecord("mfa_fix_failure")

RlsFinished ==
  /\ fx.pending = {}
  /\ fx.fixes.rls.needed =>
       \/ HasRecord("rls_fix_success")
       \/ HasRecord("rls_individual_fixes_completed")

PitrFinished ==
  fx.fixes.pitr.needed =>
    \/ HasRecord("pitr_sql_fix_success")
    \/ HasRecord("pitr_api_fix_success")
    \/ HasRecord("pitr_fix_failure")

PhaseStep ==
  /\ PhaseOf(pc') >= PhaseOf(pc)
  /\ PhaseOf(pc') = 2 => fx'.fixes.mfa.needed
  /\ PhaseOf(pc') = 3 => fx'.fixes.rls.needed /\ MfaFinished'
  /\ PhaseOf(pc') = 4 => fx'.fixes.pitr.needed /\ MfaFinished' /\ RlsFinished'
  /\ PhaseOf(pc') = 5 =>
       /\ MfaFinished' /\ RlsFinished' /\ PitrFinished'
       /\ HasRecord("compliance_fix_completed")'
       /\ response'.kind = "fix"
  /\ PhaseOf(pc') < 5 => response' = NoResponse
  /\ response /= NoResponse => response' = response

C27_PhasesAndResponse ==
  /\ [][PhaseStep]_vars
  /\ (pc /= "idle") ~> (pc = "done" /\ response.kind = "fix")

C27_Witness ==
  /\ pc = "done"
  /\ response.kind = "fix"
  /\ HasRecord("mfa_fix_failure")
  /\ HasRecord("rls_individual_fixes_completed")
  /\ HasRecord("pitr_api_fix_success")

\* C28: in a check request, if a remote call of one checker never returns,
\* the other two checkers still run to completion and write their
\* *_check_completed (or *_check_failed) evidence, but the orchestrator never
\* writes compliance_check_completed and never sends a report.
Stalled ==
  /\ pc = "checking"
  /\ \/ hung = "auth" /\ ck.mfa = "auth"
     \/ hung = "mfa_user_query" /\ ck.mfa = "users"
     \/ hung = "rls_tables_query" /\ ck.rls = "query"
     \/ hung = "backups" /\ ck.pitr = "backups"

MfaRan ==
  /\ ck.mfa = "done"
  /\ HasRecord("mfa_check_completed") \/ HasRecord("mfa_check_failed")
RlsRan ==
  /\ ck.rls = "done"
  /\ HasRecord("rls_check_completed") \/ HasRecord("rls_check_failed")
PitrRan ==
  /\ ck.pitr = "done"
  /\ HasRecord("pitr_check_completed") \/ HasRecord("pitr_check_failed")

OthersRan ==
  /\ hung \in {"auth", "mfa_user_query"} => RlsRan /\ PitrRan
  /\ hung = "rls_tables_query" => MfaRan /\ PitrRan
  /\ hung = "backups" => MfaRan /\ RlsRan

C28_HungCheckerStallsReport ==
  /\ [][Stalled => Stalled']_vars
  /\ [](Stalled => /\ ~HasRecord("compliance_check_completed")
                    /\ response = NoResponse)
  /\ Stalled ~> (Stalled /\ OthersRan)

C28_Witness ==
  /\ Stalled
  /\ hung = "mfa_user_query"
  /\ RlsRan
  /\ PitrRan
  /\ HasRecord("rls_check_completed")
  /\ HasRecord("pitr_check_completed")
  /\ response = NoResponse

\* C29: in the RLS per-table fallback every flagged table gets exactly one
\* ALTER TABLE attempt whether the statements for the other tables succeed
\* or fail, and the fallback completes only after all per-table statements
\* have finished.
InFallback == HasRecord("rls_individual_fix_fallback")

Flagged == {fx.status.rls.tables[i] : i \in 1..Len(fx.status.rls.tables)}

TableOutcomes ==
  CountRecords("rls_table_fix_success") + CountRecords("rls_table_fix_failure")

C29_EveryTableAttempted ==
  InFallback =>
    /\ \A n \in Flagged : TimesIssued(TableCall(n)) = 1
    /\ \A n \in 1..MaxTables : n \notin Flagged => TimesIssued(TableCall(n)) = 0
    /\ CountRecords("rls_table_fix_attempt") = Cardinality(Flagged)
    /\ TableOutcomes = Cardinality(Flagged) - Cardinality(fx.pending)
    /\ pc /= "rls_tables" =>
         /\ fx.pending = {}
         /\ CountRecords("rls_individual_fixes_completed") = 1
         /\ Len(fx.fixes.rls.tables) = Cardinality(Flagged)
    /\ pc = "rls_tables" => ~HasRecord("rls_individual_fixes_completed")

C29_Witness ==
  /\ pc = "done"
  /\ InFallback
  /\ Cardinality(Flagged) = 2
  /\ fx.fixes.rls.tables[1].success
  /\ ~fx.fixes.rls.tables[2].success
  /\ evidenceLogs[Len(evidenceLogs)].action = "compliance_fix_completed"
  /\ \E i, j \in 1..Len(evidenceLogs) :
       /\ i < j
       /\ evidenceLogs[i].action = "rls_table_fix_failure"
       /\ evidenceLogs[j].action = "rls_table_fix_success"

\* C30: in every fix response, for each category (mfa, rls, pitr): applied is
\* true iff needed is true, and success = true implies applied = true and
\* needed = true; a category that was not needed always has applied = false
\* and success = false.
FixResponded == pc = "done" /\ response.kind = "fix"

FlagsConsistent(f) ==
  /\ f.applied <=> f.needed
  /\ f.success => f.applied /\ f.needed
  /\ ~f.needed => ~f.applied /\ ~f.success

C30_AppliedIffNeeded ==
  FixResponded =>
    /\ FlagsConsistent(response.details.mfa)
    /\ FlagsConsistent(response.details.rls)
    /\ FlagsConsistent(response.details.pitr)

C30_Witness ==
  /\ FixResponded
  /\ response.details.mfa.needed
  /\ response.details.mfa.applied
  /\ ~response.details.mfa.success
  /\ response.details.rls.needed
  /\ response.details.rls.applied
  /\ ~response.details.rls.success
  /\ ~response.details.pitr.needed
  /\ ~response.details.pitr.applied
  /\ fx.status.pitr.needsFix

\* C31: in every fix response, for each category, success = true implies
\* error = null, also when RLS succeeded only through the per-table fallback
\* or PITR only through the API fallback.
NoStaleError(f) == f.success => f.error = "null"

C31_SuccessMeansNoError ==
  FixResponded =>
    /\ NoStaleError(response.details.mfa)
    /\ NoStaleError(response.details.rls)
    /\ NoStaleError(response.details.pitr)

\* C32: a check report has overallStatus 'pass' only if none of the three
\* category probes failed: whenever the MFA, RLS or PITR result is an error
\* payload, overallStatus is 'fail'.
ProbeFailed ==
  response.mfa.failed \/ response.rls.failed \/ response.pitr.failed

C32_FailedProbeFailsReport ==
  (Reported /\ ProbeFailed) => response.summary.overallStatus = "fail"

\* C33: for every backups configuration value, the fix planner marks PITR as
\* needing a fix exactly when the PITR checker reports status 'fail' for the
\* same configuration, truthy values other than the boolean true included.
\* Stated for a check followed by a fix on the project the check left
\* unchanged, both having fetched the configuration.
PitrProbed ==
  /\ fx.fixId /= Null
  /\ pc \notin {"idle", "probe_mfa", "probe_rls", "probe_pitr", "aborted"}
  /\ ~fx.status.pitr.failed

C33_PlannerAgreesWithChecker ==
  (/\ round > 1
   /\ prev.kind = "report"
   /\ ~prev.response.pitr.failed
   /\ PitrProbed) =>
    (fx.status.pitr.needsFix <=> prev.response.pitr.status = "fail")

\* C34: in fix planning, when a category's status probe itself fails (the
\* auth-config fetch, the missing-RLS query or the backups fetch), that
\* category gets needed = false, is labelled 'no_action_needed', no fix is
\* attempted for it, it does not make overall success false, and planning of
\* the other two categories still proceeds.
Settled(f) == ~f.needed \/ f.success

AllProbed ==
  /\ Issued("GET", "auth")
  /\ Issued("POST", "rls_missing_tables_query")
  /\ Issued("GET", "backups")

C34_FailedProbeSkipsCategory ==
  /\ (fx.status.mfa.failed \/ fx.status.rls.failed \/ fx.status.pitr.failed) =>
       /\ pc = "done" => (response.kind = "fix" /\ response.http = 200)
       /\ (Planned \/ pc = "done") => AllProbed
  /\ fx.status.mfa.failed =>
       /\ pc /= "probe_mfa" /\ ~fx.fixes.mfa.needed
       /\ ~Issued("PATCH", "auth") /\ ~HasRecord("mfa_fix_attempt")
       /\ FixResponded =>
            /\ response.summary.mfa = "no_action_needed"
            /\ response.allSuccessful <=>
                 (Settled(response.details.rls) /\ Settled(response.details.pitr))
  /\ fx.status.rls.failed =>
       /\ ~fx.fixes.rls.needed
       /\ ~Issued("POST", "rls_batch_enable") /\ ~Issued("POST", "rls_enable_table")
       /\ ~HasRecord("rls_fix_attempt")
       /\ FixResponded =>
            /\ response.summary.rls = "no_action_needed"
            /\ response.allSuccessful <=>
                 (Settled(response.details.mfa) /\ Settled(response.details.pitr))
  /\ fx.status.pitr.failed =>
       /\ ~fx.fixes.pitr.needed
       /\ ~Issued("POST", "pitr_enable_sql") /\ ~Issued("PATCH", "backups")
       /\ ~HasRecord("pitr_fix_attempt")
       /\ FixResponded =>
            /\ response.summary.pitr = "no_action_needed"
            /\ response.allSuccessful <=>
                 (Settled(response.details.mfa) /\ Settled(response.details.rls))

\* the auth-config fetch failed on a project whose MFA is off; RLS and PITR
\* were still probed, planned and fixed, and the request reports success
C34_Witness ==
  /\ FixResponded
  /\ fx.status.mfa.failed
  /\ remote.auth = AuthOff
  /\ response.summary.mfa = "no_action_needed"
  /\ response.summary.rls = "fixed"
  /\ response.summary.pitr = "fixed"
  /\ response.allSuccessful
  /\ HasRecord("mfa_status_check_failed")

\* C35: the check endpoint is read-only with respect to the remote project:
\* during a check request no PATCH and no state-changing SQL is issued, so
\* the remote auth config, row-security flags and backups config are the same
\* after the request as before it, and two consecutive checks on an unchanged
\* project yield the same category results and overallStatus.  An unchanged
\* project answers the same call alike both times; the evidence ids in the
\* results differ from request to request and are left out of the comparison.
Category(r) == [r EXCEPT !.checkId = Null]

SameReport(a, b) ==
  /\ Category(a.mfa) = Category(b.mfa)
  /\ Category(a.rls) = Category(b.rls)
  /\ Category(a.pitr) = Category(b.pitr)
  /\ a.summary = b.summary

OnlyReads == \A i \in 1..Len(remoteCalls) : remoteCalls[i] \in Reads

At(action) == {i \in 1..Len(evidenceLogs) : evidenceLogs[i].action = action}

Precedes(first, then) ==
  \A j \in At(then) : \E i \in At(first) : i < j

Terminal(checker) ==
  IF checker = "mfa" THEN At("mfa_check_completed") \cup At("mfa_check_failed")
  ELSE IF checker = "rls"
    THEN At("rls_check_completed") \cup At("rls_check_failed")
  ELSE At("pitr_check_completed") \cup At("pitr_check_failed")

C36_CheckRecordOrder ==
  /\ Precedes("compliance_check_initiated", "mfa_check_started")
  /\ Precedes("compliance_check_initiated", "rls_check_started")
  /\ Precedes("compliance_check_initiated", "pitr_check_started")
  /\ Precedes("mfa_check_started", "mfa_check_completed")
  /\ Precedes("mfa_check_started", "mfa_check_failed")
  /\ Precedes("rls_check_started", "rls_check_completed")
  /\ Precedes("rls_check_started", "rls_check_failed")
  /\ Precedes("pitr_check_started", "pitr_check_completed")
  /\ Precedes("pitr_check_started", "pitr_check_failed")
  /\ \A j \in At("compliance_check_completed") :
       \A checker \in {"mfa", "rls", "pitr"} :
         \E i \in Terminal(checker) : i < j

\* a finished check whose PITR checker ended first and whose MFA checker
\* ended last, the RLS checker having failed in between
C36_Witness ==
  /\ Reported
  /\ evidenceLogs[Len(evidenceLogs)].action = "compliance_check_completed"
  /\ \E i \in At("pitr_check_completed"), j \in At("rls_check_failed"),
        k \in At("mfa_check_completed") : i < j /\ j < k
  /\ Cardinality(At("compliance_check_initiated")) = 1

\* C37: every check request that gets a response writes exactly one
\* compliance_check_initiated record and exactly one terminal record
\* (compliance_check_completed with a 200 response, or compliance_check_failed
\* with a 500 response, never both); every fix request that gets a response
\* writes exactly one compliance_fix_initiated record and exactly one of
\* compliance_fix_completed (200) or compliance_fix_failure (500).
\* As stated, for every response to a request for a check or a fix:
Answered == pc = "done" /\ response.kind /= "logs"

C37_EveryResponse ==
  Answered =>
    \/ /\ CountRecords("compliance_check_initiated") = 1
       /\ CountRecords("compliance_check_completed")
            + CountRecords("compliance_check_failed") = 1
    \/ /\ CountRecords("compliance_fix_initiated") = 1
       /\ CountRecords("compliance_fix_completed")
            + CountRecords("compliance_fix_failure") = 1

\* For the requests that passed validateToken: one initiation, no terminal
\* record before the response, and one terminal record matching the status
\* code with it; a request answered 401 has neither.
CheckTerminals ==
  CountRecords("compliance_check_completed")
    + CountRecords("compliance_check_failed")

FixTerminals ==
  CountRecords("compliance_fix_completed")
    + CountRecords("compliance_fix_failure")

C37_OneInitiationOneTerminal ==
  /\ (pc = "done" /\ response.http = 401) =>
       /\ CountRecords("compliance_check_initiated") = 0
       /\ CountRecords("compliance_fix_initiated") = 0
       /\ CheckTerminals = 0 /\ FixTerminals = 0
  /\ HasRecord("compliance_check_initiated") =>
       /\ CountRecords("compliance_check_initiated") = 1
       /\ CheckTerminals = IF pc = "done" THEN 1 ELSE 0
       /\ pc = "done" =>
            /\ response.http \in {200, 500}
            /\ response.http = 200 <=> HasRecord("compliance_check_completed")
            /\ response.http = 500 <=> HasRecord("compliance_check_failed")
  /\ HasRecord("compliance_fix_initiated") =>
       /\ CountRecords("compliance_fix_initiated") = 1
       /\ FixTerminals = IF pc = "done" THEN 1 ELSE 0
       /\ pc = "done" =>
            /\ response.http \in {200, 500}
            /\ response.http = 200 <=> HasRecord("compliance_fix_completed")
            /\ response.http = 500 <=> HasRecord("compliance_fix_failure")

\* a fix answered 200 with partial success, its token taken from the body
C37_Witness ==
  /\ FixResponded
  /\ response.http = 200
  /\ ~response.allSuccessful
  /\ token = "tok_body"
  /\ CountRecords("compliance_fix_initiated") = 1
  /\ CountRecords("compliance_fix_completed") = 1
  /\ evidenceLogs[Len(evidenceLogs)].action = "compliance_fix_completed"
  /\ evidenceLogs[Len(evidenceLogs)].status = "partial_success"

\* C38: if a fix request completes with every category labelled 'fixed' or
\* 'no_action_needed', a check run immediately afterwards on the same
\* project reports overallStatus = 'pass'.
AfterCleanFix ==
  /\ round > 1
  /\ prev.kind = "fix"
  /\ FullySucceeded(prev.response)
  /\ Reported

C38_CleanFixThenPass ==
  AfterCleanFix => response.summary.overallStatus = "pass"

\* C39: for a single check or fix request with no other request in flight
\* and no file-system failure, every evidence record written on behalf of the
\* request, the token_validation_attempt record of validateToken included, is
\* in the global log file once the response has been sent and all pending
\* writes have finished.  Stated for the request's first two calls: once
\* neither is pending, the file holds both records.
NonePending == \A c \in 1..Len(inflight) : inflight[c].stage = "returned"

C39_AllInGlobalLog ==
  (fs = "ok" /\ NonePending) => \A c \in 1..Len(inflight) : InMainLog(c)

====
